---- MODULE Spec2Model ----
(***************************************************************************)
(* Verification model of the commodities-research notebooks.               *)
(*                                                                         *)
(* Every notebook is a linear sequence of cells over in-memory tables.  A  *)
(* table (pandas DataFrame) is a sequence of records, one per row, in row  *)
(* order.  A pd.Timestamp of a one-minute bar is the number of minutes     *)
(* since midnight of proleptic Gregorian ordinal 0, so that                *)
(* Timestamp.date() is ts \div 1440 (date.toordinal()) and                 *)
(* Timestamp.time() is ts % 1440.  Each notebook has its own               *)
(* specification; the variables of the other notebooks stay idle.          *)
(***************************************************************************)
EXTENDS Integers, Sequences, FiniteSets, TLC

(***************************************************************************)
(* Bounds of the explored inputs.                                          *)
(***************************************************************************)
MaxRows == 3
MaxVolume == 2
MaxDTE == 1
MaxShorts == 2
MaxBars == 1
MaxOffset == 1
MaxSettleRows == 2
MaxIntradayBars == 2
MaxFiles == 2
MaxSlidingBars == 2
MaxContractBars == 3
MaxLines == 1
MaxOpenDteRows == 2
MaxNormalizedRows == 4
BaseDay == 735778

(***************************************************************************)
(* State.  One group of variables per notebook, named after the notebook's *)
(* own names; *_pc is the cell the notebook is about to execute.           *)
(***************************************************************************)
\* commodities_split_by_days_to_expiration.ipynb
VARIABLES dte_pc, master_ungrouped_df, DAYS_TO_EXPIRATION_THRESHOLD,
          less_than_or_equal_dte_threshold_df, greater_than_dte_threshold_df,
          less_than_or_equal_dte_unique_trading_days,
          greater_than_dte_unique_trading_days,
          lte_dte_threshold_frames, gt_dte_threshold_frames,
          num_lte_dte_unique_trading_days, num_gt_dte_unique_trading_days,
          df_intraday_normalized_lte_dte, df_intraday_normalized_gt_dte,
          df_intraday_normalized_lte_dte_grouped_by_minute,
          df_intraday_normalized_gt_grouped_by_minute

\* the variables of the normalized pipeline
varsDteNormalized ==
  <<num_lte_dte_unique_trading_days, num_gt_dte_unique_trading_days,
    df_intraday_normalized_lte_dte, df_intraday_normalized_gt_dte,
    df_intraday_normalized_lte_dte_grouped_by_minute,
    df_intraday_normalized_gt_grouped_by_minute>>

varsDTE == <<dte_pc, master_ungrouped_df, DAYS_TO_EXPIRATION_THRESHOLD,
             less_than_or_equal_dte_threshold_df, greater_than_dte_threshold_df,
             less_than_or_equal_dte_unique_trading_days,
             greater_than_dte_unique_trading_days,
             lte_dte_threshold_frames, gt_dte_threshold_frames, varsDteNormalized>>

\* the normalized pipeline has not run
IdleDteNormalized ==
  /\ num_lte_dte_unique_trading_days = 0
  /\ num_gt_dte_unique_trading_days = 0
  /\ df_intraday_normalized_lte_dte = <<>>
  /\ df_intraday_normalized_gt_dte = <<>>
  /\ df_intraday_normalized_lte_dte_grouped_by_minute = <<>>
  /\ df_intraday_normalized_gt_grouped_by_minute = <<>>

IdleDTE ==
  /\ dte_pc = "idle"
  /\ master_ungrouped_df = <<>>
  /\ DAYS_TO_EXPIRATION_THRESHOLD = 0
  /\ less_than_or_equal_dte_threshold_df = <<>>
  /\ greater_than_dte_threshold_df = <<>>
  /\ less_than_or_equal_dte_unique_trading_days = <<>>
  /\ greater_than_dte_unique_trading_days = <<>>
  /\ lte_dte_threshold_frames = <<>>
  /\ gt_dte_threshold_frames = <<>>
  /\ IdleDteNormalized

\* the date-split volume notebook (its combined table is also called
\* master_ungrouped_df); split_df is the table passed as the argument df of
\* split_dataframe_by_date
VARIABLES date_pc, date_master_ungrouped_df, split_df,
          before_date_df, after_date_df,
          before_date_by_minute_df, after_date_by_minute_df

varsDate == <<date_pc, date_master_ungrouped_df, split_df,
              before_date_df, after_date_df,
              before_date_by_minute_df, after_date_by_minute_df>>

IdleDate ==
  /\ date_pc = "idle"
  /\ date_master_ungrouped_df = <<>>
  /\ split_df = <<>>
  /\ before_date_df = <<>>
  /\ after_date_df = <<>>
  /\ before_date_by_minute_df = <<>>
  /\ after_date_by_minute_df = <<>>

\* commodities_split_by_cot_short_interest.ipynb
VARIABLES cot_pc, cot_df, median_pmpu_shorts_percentage,
          pmpu_shorts_split_by_median, intraday_true_open_df

varsCOT == <<cot_pc, cot_df, median_pmpu_shorts_percentage,
             pmpu_shorts_split_by_median, intraday_true_open_df>>

IdleCOT ==
  /\ cot_pc = "idle"
  /\ cot_df = <<>>
  /\ median_pmpu_shorts_percentage = [num |-> 0, den |-> 1]
  /\ pmpu_shorts_split_by_median = [above_median_df |-> <<>>, below_median_df |-> <<>>]
  /\ intraday_true_open_df = <<>>

\* commodities_analyze_missing_open_bars.ipynb; open_i is the index of the
\* symbol loop in progress
VARIABLES open_pc, contract_open_enriched_df, unique_symbols, open_i,
          rows_with_missing_open_df, rows_with_populated_open_df,
          open_bar_by_contract_count_df, days_to_expiration_open_bar_count_df

varsOpen == <<open_pc, contract_open_enriched_df, unique_symbols, open_i,
              rows_with_missing_open_df, rows_with_populated_open_df,
              open_bar_by_contract_count_df, days_to_expiration_open_bar_count_df>>

IdleOpen ==
  /\ open_pc = "idle"
  /\ contract_open_enriched_df = <<>>
  /\ unique_symbols = <<>>
  /\ open_i = 0
  /\ rows_with_missing_open_df = <<>>
  /\ rows_with_populated_open_df = <<>>
  /\ open_bar_by_contract_count_df = <<>>
  /\ days_to_expiration_open_bar_count_df = <<>>

\* settlement_and_open_correlation_analysis.ipynb (its symbol list is also
\* called unique_symbols); date_index is the position of the for a_date loop
VARIABLES settle_pc, settlement_change_datasets, sliding_open_df, true_open_df,
          settle_unique_symbols, a_settlement_change_dataset_index,
          a_symbol_index, unique_dates, date_index, corellation_matrix

varsSettle == <<settle_pc, settlement_change_datasets, sliding_open_df, true_open_df,
                settle_unique_symbols, a_settlement_change_dataset_index,
                a_symbol_index, unique_dates, date_index, corellation_matrix>>

IdleSettle ==
  /\ settle_pc = "idle"
  /\ settlement_change_datasets = <<>>
  /\ sliding_open_df = <<>>
  /\ true_open_df = <<>>
  /\ settle_unique_symbols = <<>>
  /\ a_settlement_change_dataset_index = 0
  /\ a_symbol_index = 0
  /\ unique_dates = <<>>
  /\ date_index = 0
  /\ corellation_matrix = <<>>

\* add_header.sh: the directory tree under the working directory (path ->
\* lines of the file), the tree as it was when the script started, the words
\* of $(find . -name "*.csv") still to be looped over, and what was echoed
VARIABLES hdr_pc, hdr_fs, hdr_fs_at_start, hdr_words, hdr_stdout

varsHeader == <<hdr_pc, hdr_fs, hdr_fs_at_start, hdr_words, hdr_stdout>>

IdleHeader ==
  /\ hdr_pc = "idle"
  /\ hdr_fs = <<>>
  /\ hdr_fs_at_start = <<>>
  /\ hdr_words = <<>>
  /\ hdr_stdout = <<>>

\* the rename script: the working directory (name -> content), the directory
\* as it was when the script started, and the expansion of *.txt still to be
\* looped over
VARIABLES ren_pc, ren_dir, ren_dir_at_start, ren_files

varsRename == <<ren_pc, ren_dir, ren_dir_at_start, ren_files>>

IdleRename ==
  /\ ren_pc = "idle"
  /\ ren_dir = <<>>
  /\ ren_dir_at_start = <<>>
  /\ ren_files = <<>>

\* commodities_split_by_cot_short_interest.ipynb, the cells that take the
\* sliding-open bars through the split by report and the averages
VARIABLES slide_pc, intraday_sliding_open_df, intraday_minute_bars_sliding_open_split,
          sliding_open_intraday_average_changes

varsSliding == <<slide_pc, intraday_sliding_open_df, intraday_minute_bars_sliding_open_split,
                 sliding_open_intraday_average_changes>>

IdleSliding ==
  /\ slide_pc = "idle"
  /\ intraday_sliding_open_df = <<>>
  /\ intraday_minute_bars_sliding_open_split = [above_median |-> <<>>, below_median |-> <<>>]
  /\ sliding_open_intraday_average_changes = <<>>

\* commodities_split_by_days_to_expiration.ipynb, get_master_ungrouped_data_frame:
\* the contract files in the order of csv_files, the position of the loop
\* over them, and the tables of the loop; caller_a_contract_df is the table
\* that the loop's name a_contract_df refers to
VARIABLES load_pc, firstratedata_futures, load_i, with_dte_df, grouped_df,
          caller_a_contract_df

varsLoad == <<load_pc, firstratedata_futures, load_i, with_dte_df, grouped_df,
              caller_a_contract_df>>

IdleLoad ==
  /\ load_pc = "idle"
  /\ firstratedata_futures = <<>>
  /\ load_i = 0
  /\ with_dte_df = <<>>
  /\ grouped_df = <<>>
  /\ caller_a_contract_df = <<>>

\* commodities_split_by_cot_short_interest.ipynb, the apply date ranges of
\* the reports: the table read from the report file, cot_df after the cell
\* that enriches it, a bar timestamp and the results of the two functions
\* that match it to a report
VARIABLES apply_pc, cot_csv_as_df, enriched_cot_df, a_bar_date,
          contains_rows_with_date_inside, bar_preceding_tuesday

varsApply == <<apply_pc, cot_csv_as_df, enriched_cot_df, a_bar_date,
               contains_rows_with_date_inside, bar_preceding_tuesday>>

IdleApply ==
  /\ apply_pc = "idle"
  /\ cot_csv_as_df = <<>>
  /\ enriched_cot_df = <<>>
  /\ a_bar_date = 0
  /\ contains_rows_with_date_inside = FALSE
  /\ bar_preceding_tuesday = 0

\* a notebook executed from its first cell to its last: the notebook, the
\* position in its statements, the names bound in the kernel's namespace and
\* the functions defined, each with the names its body looks up in that
\* namespace
VARIABLES cells_pc, notebook, statement_index, namespace, functions

varsCells == <<cells_pc, notebook, statement_index, namespace, functions>>

IdleCells ==
  /\ cells_pc = "idle"
  /\ notebook = ""
  /\ statement_index = 0
  /\ namespace = {}
  /\ functions = {}

vars == <<varsDTE, varsDate, varsCOT, varsOpen, varsSettle, varsHeader, varsRename, varsSliding,
          varsLoad, varsApply, varsCells>>

(***************************************************************************)
(* Calendar.                                                               *)
(***************************************************************************)
MinutesPerDay == 1440

Date(ts) == ts \div MinutesPerDay

TimeOfDay(ts) == ts % MinutesPerDay

\* datetime.date.weekday(): Monday is 0; ordinal 1 (0001-01-01) is a Monday
weekday(day) == (day + 6) % 7

(***************************************************************************)
(* Generic table helpers.                                                  *)
(***************************************************************************)
Range(s) == {s[i] : i \in DOMAIN s}

\* number of rows of table s equal to r
Count(r, s) == Cardinality({i \in DOMAIN s : s[i] = r})

\* all tables of at most n rows drawn from the row set R
Tables(R, n) == UNION {[1..k -> R] : k \in 0..n}

RECURSIVE SumTo(_, _, _)
\* f[lo] + ... + f[hi], by halving
SumTo(f, lo, hi) ==
  IF lo > hi THEN 0
  ELSE IF lo = hi THEN f[lo]
  ELSE LET mid == (lo + hi) \div 2
       IN SumTo(f, lo, mid) + SumTo(f, mid + 1, hi)

\* sum of the Volume column
SumVolume(df) == SumTo([i \in DOMAIN df |-> df[i].Volume], 1, Len(df))

SetMin(S) == CHOOSE x \in S : \A y \in S : x <= y

SetMax(S) == CHOOSE x \in S : \A y \in S : x >= y

\* Series.unique() / drop_duplicates(): first occurrences, in order
RECURSIVE unique(_)
unique(s) ==
  IF s = <<>> THEN <<>>
  ELSE LET init == unique(SubSeq(s, 1, Len(s) - 1))
           last == s[Len(s)]
       IN IF last \in Range(init) THEN init ELSE Append(init, last)

\* the members of a set of numbers in ascending order
ascending(S) ==
  CHOOSE f \in [1..Cardinality(S) -> S] :
    \A i, j \in 1..Cardinality(S) : i < j => f[i] < f[j]

\* the orderings DataFrame.sort_values(by=['DateTime']) may return: the
\* default quicksort leaves the order of equal keys unspecified
sort_values(df) ==
  LET n == Len(df)
      perms == {p \in [1..n -> 1..n] : \A i, j \in 1..n : i # j => p[i] # p[j]}
  IN {[i \in 1..n |-> df[p[i]]] : p \in
        {q \in perms : \A i \in 1..(n - 1) : df[q[i]].DateTime <= df[q[i + 1]].DateTime}}

(***************************************************************************)
(* commodities_split_by_days_to_expiration.ipynb                           *)
(***************************************************************************)
\* bar timestamps offered to the notebook: the session open of two
\* consecutive days
DteBarTimes == {d * MinutesPerDay + 510 : d \in {BaseDay, BaseDay + 1}}

\* three levels of volume: between 1 and 6 and between 1 and 7 the scaled
\* largest volume is not the float 1.0, between 6 and 7 it is
DteVolumes == {1, 6, 7}

DteRows ==
  [DateTime : DteBarTimes, Volume : DteVolumes,
   Days_To_Contract_Expiration : 0..MaxDTE]

get_unique_trading_days(df) == unique([i \in DOMAIN df |-> Date(df[i].DateTime)])

split_dataframe_by_dte_lt(a_df, dte_threshold) ==
  << SelectSeq(a_df, LAMBDA r : r.Days_To_Contract_Expiration < dte_threshold),
     SelectSeq(a_df, LAMBDA r : r.Days_To_Contract_Expiration > dte_threshold) >>

split_dataframe_by_dte(a_df, dte_threshold) ==
  << SelectSeq(a_df, LAMBDA r : r.Days_To_Contract_Expiration <= dte_threshold),
     SelectSeq(a_df, LAMBDA r : r.Days_To_Contract_Expiration > dte_threshold) >>

(***************************************************************************)
(* numpy float64, the type of the scaled volumes                            *)
(***************************************************************************)
\* A float64 is a record [s, m, e] of value (-1)^s * m * 2^e: the sign s, the
\* 53-bit significand m (2^52 <= m < 2^53) as a sequence of limbs, least
\* significant first, and the exponent e. Zero is [s = 0, m = <<>>, e = 0].
\* Every operation rounds its exact result to the nearest float64, ties to
\* even, as the hardware does. Exponents stay far inside the float64 range
\* for the numbers of the notebook, so overflow and subnormals do not occur.
Limb == 32768
SignificandBits == 53

RECURSIVE big_trim(_)
\* a natural number without leading zero limbs; zero is <<>>
big_trim(N) ==
  IF N # <<>> /\ N[Len(N)] = 0 THEN big_trim(SubSeq(N, 1, Len(N) - 1)) ELSE N

\* the limbs of a machine integer 0 <= n < 2^31
big_from_int(n) ==
  big_trim(<<n % Limb, (n \div Limb) % Limb, n \div (Limb * Limb)>>)

RECURSIVE big_mul_small_carry(_, _, _)
big_mul_small_carry(N, x, carry) ==
  IF N = <<>> THEN <<carry>>
  ELSE LET p == Head(N) * x + carry
       IN <<p % Limb>> \o big_mul_small_carry(Tail(N), x, p \div Limb)

\* N * x for 0 <= x < Limb
big_mul_small(N, x) == big_trim(big_mul_small_carry(N, x, 0))

RECURSIVE big_divmod_small_limbs(_, _)
big_divmod_small_limbs(N, d) ==
  IF N = <<>> THEN [q |-> <<>>, r |-> 0]
  ELSE LET high == big_divmod_small_limbs(Tail(N), d)
           cur == high.r * Limb + Head(N)
       IN [q |-> <<cur \div d>> \o high.q, r |-> cur % d]

big_trim_quotient(qr) == [q |-> big_trim(qr.q), r |-> qr.r]

\* quotient and remainder of N by 1 <= d <= Limb
big_divmod_small(N, d) == big_trim_quotient(big_divmod_small_limbs(N, d))

RECURSIVE big_add_carry(_, _, _)
big_add_carry(A, B, carry) ==
  IF A = <<>> /\ B = <<>> THEN <<carry>>
  ELSE LET a == IF A = <<>> THEN 0 ELSE Head(A)
           b == IF B = <<>> THEN 0 ELSE Head(B)
           sum == a + b + carry
       IN <<sum % Limb>> \o big_add_carry(IF A = <<>> THEN <<>> ELSE Tail(A),
                                         IF B = <<>> THEN <<>> ELSE Tail(B),
                                         sum \div Limb)

big_add(A, B) == big_trim(big_add_carry(A, B, 0))

RECURSIVE big_sub_borrow(_, _, _)
big_sub_borrow(A, B, borrow) ==
  IF A = <<>> THEN <<>>
  ELSE LET b == (IF B = <<>> THEN 0 ELSE Head(B)) + borrow
       IN <<(Head(A) - b) % Limb>> \o
            big_sub_borrow(Tail(A), IF B = <<>> THEN <<>> ELSE Tail(B),
                           IF Head(A) < b THEN 1 ELSE 0)

\* A - B for A >= B
big_sub(A, B) == big_trim(big_sub_borrow(A, B, 0))

RECURSIVE big_less(_, _)
\* A < B, both without leading zero limbs
big_less(A, B) ==
  IF Len(A) # Len(B) THEN Len(A) < Len(B)
  ELSE IF A = <<>> THEN FALSE
  ELSE IF A[Len(A)] # B[Len(B)] THEN A[Len(A)] < B[Len(B)]
  ELSE big_less(SubSeq(A, 1, Len(A) - 1), SubSeq(B, 1, Len(B) - 1))

\* the number of binary digits of N
big_bit_length(N) ==
  IF N = <<>> THEN 0
  ELSE 15 * (Len(N) - 1)
         + (CHOOSE k \in 1..15 : 2^(k - 1) <= N[Len(N)] /\ N[Len(N)] < 2^k)

\* N * 2^k
big_shift_left(N, k) ==
  big_mul_small([i \in 1..(k \div 15) |-> 0] \o N, 2^(k % 15))

big_shifted_out(dropped, kept) ==
  [q |-> kept.q, sticky |-> kept.r # 0 \/ \E i \in DOMAIN dropped : dropped[i] # 0]

\* N \div 2^k, and whether a nonzero digit was shifted out
big_shift_right(N, k) ==
  big_shifted_out(SubSeq(N, 1, IF k \div 15 < Len(N) THEN k \div 15 ELSE Len(N)),
                  big_divmod_small(SubSeq(N, k \div 15 + 1, Len(N)), 2^(k % 15)))

float64_zero == [s |-> 0, m |-> <<>>, e |-> 0]

\* a significand that rounding carried up to 2^53 becomes 2^52
float64_round_carry(sign, M, e) ==
  IF big_bit_length(M) > SignificandBits
    THEN [s |-> sign, m |-> big_shift_left(<<1>>, SignificandBits - 1), e |-> e + 1]
    ELSE [s |-> sign, m |-> M, e |-> e]

\* sh holds the 54 leading digits: the significand and the guard digit; ties
\* go to the even significand
float64_round_half(sign, sh, e, sticky) ==
  float64_round_carry(sign,
    big_add(big_divmod_small(sh.q, 2).q,
            IF sh.q[1] % 2 = 1 /\ (sh.sticky \/ sticky \/ (sh.q[1] \div 2) % 2 = 1)
              THEN <<1>> ELSE <<>>),
    e)

float64_round_digits(sign, N, e, sticky, L) ==
  IF N = <<>> THEN float64_zero
  ELSE IF L <= SignificandBits
    THEN [s |-> sign, m |-> big_shift_left(N, SignificandBits - L),
          e |-> e - (SignificandBits - L)]
  ELSE float64_round_half(sign, big_shift_right(N, L - SignificandBits - 1),
                          e + L - SignificandBits, sticky)

\* the float64 nearest to (-1)^sign * (N + f) * 2^e, where 0 <= f < 1 and
\* f > 0 exactly when sticky
float64_round(sign, N, e, sticky) ==
  float64_round_digits(sign, N, e, sticky, big_bit_length(N))

\* float(n) of an integer 0 <= n < 2^31
float64(n) == float64_round(0, big_from_int(n), 0, FALSE)

float64_neg(f) == IF f.m = <<>> THEN f ELSE [f EXCEPT !.s = 1 - f.s]

\* f * n for an integer 0 <= n < Limb: the exact product, rounded
float64_mul_int(f, n) == float64_round(f.s, big_mul_small(f.m, n), f.e, FALSE)

\* f / n for an integer 1 <= n < Limb: the quotient carries more than 54
\* digits, the remainder tells whether it is exact
float64_div_rounded(sign, qr, e) == float64_round(sign, qr.q, e, qr.r # 0)

float64_div_int(f, n) ==
  float64_div_rounded(f.s, big_divmod_small(<<0, 0>> \o f.m, n), f.e - 30)

\* A * 2^e with sign fs plus B * 2^e with sign gs
float64_add_aligned(fs, A, gs, B, e) ==
  float64_round(IF fs = gs \/ ~big_less(A, B) THEN fs ELSE gs,
                IF fs = gs THEN big_add(A, B)
                ELSE IF big_less(A, B) THEN big_sub(B, A) ELSE big_sub(A, B),
                e, FALSE)

\* f + g: both are brought to the smaller exponent, added exactly, rounded
float64_add(f, g) ==
  IF f.m = <<>> THEN g
  ELSE IF g.m = <<>> THEN f
  ELSE float64_add_aligned(
         f.s, big_shift_left(f.m, f.e - (IF f.e < g.e THEN f.e ELSE g.e)),
         g.s, big_shift_left(g.m, g.e - (IF f.e < g.e THEN f.e ELSE g.e)),
         IF f.e < g.e THEN f.e ELSE g.e)

float64_sub(f, g) == float64_add(f, float64_neg(g))

\* f <= g
float64_le(f, g) == float64_sub(g, f).s = 0

\* scaler.fit(x): the smallest value and the rounded scale (1 - 0) / (max - min),
\* the range taken as 1 when it is 0
MinMaxScaler_fit_scale(X) ==
  [data_min |-> SetMin(Range(X)),
   scale_ |-> float64_div_int(float64(1),
                IF SetMax(Range(X)) = SetMin(Range(X)) THEN 1
                ELSE SetMax(Range(X)) - SetMin(Range(X)))]

\* min_ = 0 - data_min * scale_
MinMaxScaler_fit_min(fitted) ==
  [scale_ |-> fitted.scale_,
   min_ |-> float64_sub(float64(0), float64_mul_int(fitted.scale_, fitted.data_min))]

MinMaxScaler_fit(X) == MinMaxScaler_fit_min(MinMaxScaler_fit_scale(X))

\* scaler.transform(x): x * scale_ + min_
MinMaxScaler_transform(scaler, X) ==
  [i \in DOMAIN X |-> float64_add(float64_mul_int(scaler.scale_, X[i]), scaler.min_)]

\* MinMaxScaler(feature_range=(0, 1)).fit(x).transform(x) on one column, in
\* float64 as the scaler computes it; every operation rounds
normalize_nd_array(to_normalize) ==
  MinMaxScaler_transform(MinMaxScaler_fit(to_normalize), to_normalize)

\* df.loc[string_date]: the rows of one calendar day
loc_date(df, day) == SelectSeq(df, LAMBDA r : Date(r.DateTime) = day)

\* days_df['Volume Normalized Intraday'] = normalized_day_volume
with_normalized(days_df, normalized_day_volume) ==
  [j \in DOMAIN days_df |->
     [DateTime |-> days_df[j].DateTime,
      Volume |-> days_df[j].Volume,
      Days_To_Contract_Expiration |-> days_df[j].Days_To_Contract_Expiration,
      Volume_Normalized_Intraday |-> normalized_day_volume[j]]]

create_dataframes_for_volume_grouped_by_minute(df_volume_by_minute, unique_trading_days) ==
  [i \in DOMAIN unique_trading_days |->
     LET days_df == loc_date(df_volume_by_minute, unique_trading_days[i])
         volume_values == [j \in DOMAIN days_df |-> days_df[j].Volume]
     IN with_normalized(days_df, normalize_nd_array(volume_values))]

RECURSIVE concat_to_single_df(_)
\* pd.concat(frames): the rows of the frames, in the order of the frames
concat_to_single_df(frames) ==
  IF frames = <<>> THEN <<>> ELSE Head(frames) \o concat_to_single_df(Tail(frames))

RECURSIVE group_sum_from(_, _, _)
\* t = sumx + y becomes the sum, (t - sumx) - y the compensation
group_sum_step(column, sumx, y, t) ==
  group_sum_from(Tail(column), t, float64_sub(float64_sub(t, sumx), y))

group_sum_compensated(column, sumx, y) ==
  group_sum_step(column, sumx, y, float64_add(sumx, y))

\* y = val - compensation
group_sum_from(column, sumx, compensation) ==
  IF column = <<>> THEN sumx
  ELSE group_sum_compensated(column, sumx, float64_sub(Head(column), compensation))

\* the sum of a float64 column of one group: pandas adds the rows in order
\* with Kahan's compensated summation
group_sum(column) == group_sum_from(column, float64_zero, float64_zero)

\* intraday_summed / num_unique_trading_days
calculate_normalized_vol_by_minute(intraday_summed, num_unique_trading_days) ==
  float64_div_int(intraday_summed, num_unique_trading_days)

\* the row of one time of day: the sums of the columns over the rows at that
\* time; 'Daily Avg Volume Normalized' is the summed normalized volume
\* divided by the number of unique trading days
summed_row(time, rows, summed, num_unique_trading_days) ==
  [time |-> time,
   Volume |-> SumVolume(rows),
   Days_To_Contract_Expiration |->
     SumTo([j \in DOMAIN rows |-> rows[j].Days_To_Contract_Expiration], 1, Len(rows)),
   Volume_Normalized_Summed |-> summed,
   Daily_Avg_Volume_Normalized |->
     calculate_normalized_vol_by_minute(summed, num_unique_trading_days)]

\* df.groupby(lambda x: x.time()).sum(): one row per time of day, in
\* ascending order
group_by_minute_sum_normalized_volumes(df_intraday_normalized, num_unique_trading_days) ==
  LET times == ascending({TimeOfDay(df_intraday_normalized[i].DateTime) :
                            i \in DOMAIN df_intraday_normalized})
  IN [k \in DOMAIN times |->
        LET rows == SelectSeq(df_intraday_normalized,
                              LAMBDA r : TimeOfDay(r.DateTime) = times[k])
        IN summed_row(times[k], rows,
                      group_sum([j \in DOMAIN rows |-> rows[j].Volume_Normalized_Intraday]),
                      num_unique_trading_days)]

\* rename(columns={'Daily Avg Volume Normalized': 'Average Volume ...'})
\* and drop(["Volume Normalized Summed", "Days To Contract Expiration"])
rename_and_drop(df_grouped_by_minute) ==
  [k \in DOMAIN df_grouped_by_minute |->
     [time |-> df_grouped_by_minute[k].time,
      Volume |-> df_grouped_by_minute[k].Volume,
      Average_Volume |-> df_grouped_by_minute[k].Daily_Avg_Volume_Normalized]]

(***************************************************************************)
(* Cells of commodities_split_by_days_to_expiration.ipynb, from the sort   *)
(* of the combined table onwards.                                          *)
(***************************************************************************)
InitDTE ==
  /\ dte_pc = "sort"
  /\ master_ungrouped_df \in Tables(DteRows, MaxRows) \ {<<>>}
  /\ DAYS_TO_EXPIRATION_THRESHOLD \in 0..MaxDTE
  /\ less_than_or_equal_dte_threshold_df = <<>>
  /\ greater_than_dte_threshold_df = <<>>
  /\ less_than_or_equal_dte_unique_trading_days = <<>>
  /\ greater_than_dte_unique_trading_days = <<>>
  /\ lte_dte_threshold_frames = <<>>
  /\ gt_dte_threshold_frames = <<>>
  /\ IdleDteNormalized
  /\ IdleDate /\ IdleCOT /\ IdleOpen /\ IdleSettle /\ IdleHeader /\ IdleRename /\ IdleSliding /\ IdleLoad /\ IdleApply /\ IdleCells

\* master_ungrouped_df = master_ungrouped_df.sort_values(by=['DateTime'])
DteSortMaster ==
  /\ dte_pc = "sort"
  /\ master_ungrouped_df' \in sort_values(master_ungrouped_df)
  /\ dte_pc' = "split"
  /\ UNCHANGED <<DAYS_TO_EXPIRATION_THRESHOLD,
                 less_than_or_equal_dte_threshold_df, greater_than_dte_threshold_df,
                 less_than_or_equal_dte_unique_trading_days,
                 greater_than_dte_unique_trading_days,
                        lte_dte_threshold_frames, gt_dte_threshold_frames, varsDteNormalized>>
  /\ UNCHANGED <<varsDate, varsCOT, varsOpen, varsSettle, varsHeader, varsRename, varsSliding, varsLoad, varsApply, varsCells>>

DteSplit ==
  /\ dte_pc = "split"
  /\ LET split == split_dataframe_by_dte(master_ungrouped_df, DAYS_TO_EXPIRATION_THRESHOLD)
     IN /\ less_than_or_equal_dte_threshold_df' = split[1]
        /\ greater_than_dte_threshold_df' = split[2]
  /\ dte_pc' = "days"
  /\ UNCHANGED <<master_ungrouped_df, DAYS_TO_EXPIRATION_THRESHOLD,
                 less_than_or_equal_dte_unique_trading_days,
                 greater_than_dte_unique_trading_days,
                        lte_dte_threshold_frames, gt_dte_threshold_frames, varsDteNormalized>>
  /\ UNCHANGED <<varsDate, varsCOT, varsOpen, varsSettle, varsHeader, varsRename, varsSliding, varsLoad, varsApply, varsCells>>

\* the cell that determines the unique trading days of the two sides
DteUniqueTradingDays ==
  /\ dte_pc = "days"
  /\ less_than_or_equal_dte_unique_trading_days' =
       get_unique_trading_days(less_than_or_equal_dte_threshold_df)
  /\ greater_than_dte_unique_trading_days' =
       get_unique_trading_days(greater_than_dte_threshold_df)
  /\ dte_pc' = "numbers"
  /\ UNCHANGED <<master_ungrouped_df, DAYS_TO_EXPIRATION_THRESHOLD,
                 less_than_or_equal_dte_threshold_df, greater_than_dte_threshold_df,
                 lte_dte_threshold_frames, gt_dte_threshold_frames, varsDteNormalized>>
  /\ UNCHANGED <<varsDate, varsCOT, varsOpen, varsSettle, varsHeader, varsRename, varsSliding, varsLoad, varsApply, varsCells>>

\* the cell that takes the numbers of unique trading days of the two sides
DteNumUniqueTradingDays ==
  /\ dte_pc = "numbers"
  /\ num_lte_dte_unique_trading_days' = Len(less_than_or_equal_dte_unique_trading_days)
  /\ num_gt_dte_unique_trading_days' = Len(greater_than_dte_unique_trading_days)
  /\ dte_pc' = "frames"
  /\ UNCHANGED <<master_ungrouped_df, DAYS_TO_EXPIRATION_THRESHOLD,
                 less_than_or_equal_dte_threshold_df, greater_than_dte_threshold_df,
                 less_than_or_equal_dte_unique_trading_days,
                 greater_than_dte_unique_trading_days,
                 lte_dte_threshold_frames, gt_dte_threshold_frames,
                 df_intraday_normalized_lte_dte, df_intraday_normalized_gt_dte,
                 df_intraday_normalized_lte_dte_grouped_by_minute,
                 df_intraday_normalized_gt_grouped_by_minute>>
  /\ UNCHANGED <<varsDate, varsCOT, varsOpen, varsSettle, varsHeader, varsRename, varsSliding, varsLoad, varsApply, varsCells>>

DteCreateFrames ==
  /\ dte_pc = "frames"
  /\ lte_dte_threshold_frames' =
       create_dataframes_for_volume_grouped_by_minute(
         less_than_or_equal_dte_threshold_df, less_than_or_equal_dte_unique_trading_days)
  /\ gt_dte_threshold_frames' =
       create_dataframes_for_volume_grouped_by_minute(
         greater_than_dte_threshold_df, greater_than_dte_unique_trading_days)
  /\ dte_pc' = "concat"
  /\ UNCHANGED <<master_ungrouped_df, DAYS_TO_EXPIRATION_THRESHOLD,
                 less_than_or_equal_dte_threshold_df, greater_than_dte_threshold_df,
                 less_than_or_equal_dte_unique_trading_days,
                 greater_than_dte_unique_trading_days, varsDteNormalized>>
  /\ UNCHANGED <<varsDate, varsCOT, varsOpen, varsSettle, varsHeader, varsRename, varsSliding, varsLoad, varsApply, varsCells>>

\* df_intraday_normalized_lte_dte = concat_to_single_df(lte_dte_threshold_frames)
\* and the same for the other side; pd.concat raises ValueError (No objects
\* to concatenate) on an empty list of frames, and the cell stops at the
\* first call that raises
DteConcat ==
  /\ dte_pc = "concat"
  /\ LET lte == concat_to_single_df(lte_dte_threshold_frames)
         gt == concat_to_single_df(gt_dte_threshold_frames)
     IN IF lte_dte_threshold_frames = <<>>
        THEN /\ dte_pc' = "error"
             /\ UNCHANGED <<df_intraday_normalized_lte_dte, df_intraday_normalized_gt_dte>>
        ELSE IF gt_dte_threshold_frames = <<>>
        THEN /\ dte_pc' = "error"
             /\ df_intraday_normalized_lte_dte' = lte
             /\ UNCHANGED df_intraday_normalized_gt_dte
        ELSE /\ dte_pc' = "group"
             /\ df_intraday_normalized_lte_dte' = lte
             /\ df_intraday_normalized_gt_dte' = gt
  /\ UNCHANGED <<master_ungrouped_df, DAYS_TO_EXPIRATION_THRESHOLD,
                 less_than_or_equal_dte_threshold_df, greater_than_dte_threshold_df,
                 less_than_or_equal_dte_unique_trading_days,
                 greater_than_dte_unique_trading_days,
                 lte_dte_threshold_frames, gt_dte_threshold_frames,
                 num_lte_dte_unique_trading_days, num_gt_dte_unique_trading_days,
                 df_intraday_normalized_lte_dte_grouped_by_minute,
                 df_intraday_normalized_gt_grouped_by_minute>>
  /\ UNCHANGED <<varsDate, varsCOT, varsOpen, varsSettle, varsHeader, varsRename, varsSliding, varsLoad, varsApply, varsCells>>

\* the cell that groups both sides by minute
DteGroupByMinute ==
  /\ dte_pc = "group"
  /\ df_intraday_normalized_lte_dte_grouped_by_minute' =
       group_by_minute_sum_normalized_volumes(
         df_intraday_normalized_lte_dte, num_lte_dte_unique_trading_days)
  /\ df_intraday_normalized_gt_grouped_by_minute' =
       group_by_minute_sum_normalized_volumes(
         df_intraday_normalized_gt_dte, num_gt_dte_unique_trading_days)
  /\ dte_pc' = "rename"
  /\ UNCHANGED <<master_ungrouped_df, DAYS_TO_EXPIRATION_THRESHOLD,
                 less_than_or_equal_dte_threshold_df, greater_than_dte_threshold_df,
                 less_than_or_equal_dte_unique_trading_days,
                 greater_than_dte_unique_trading_days,
                 lte_dte_threshold_frames, gt_dte_threshold_frames,
                 num_lte_dte_unique_trading_days, num_gt_dte_unique_trading_days,
                 df_intraday_normalized_lte_dte, df_intraday_normalized_gt_dte>>
  /\ UNCHANGED <<varsDate, varsCOT, varsOpen, varsSettle, varsHeader, varsRename, varsSliding, varsLoad, varsApply, varsCells>>

\* the cell that renames the average to 'Average Volume <= t DTE' and
\* 'Average Volume > t DTE' and drops the columns that are not charted
DteRenameAndDrop ==
  /\ dte_pc = "rename"
  /\ df_intraday_normalized_lte_dte_grouped_by_minute' =
       rename_and_drop(df_intraday_normalized_lte_dte_grouped_by_minute)
  /\ df_intraday_normalized_gt_grouped_by_minute' =
       rename_and_drop(df_intraday_normalized_gt_grouped_by_minute)
  /\ dte_pc' = "done"
  /\ UNCHANGED <<master_ungrouped_df, DAYS_TO_EXPIRATION_THRESHOLD,
                 less_than_or_equal_dte_threshold_df, greater_than_dte_threshold_df,
                 less_than_or_equal_dte_unique_trading_days,
                 greater_than_dte_unique_trading_days,
                 lte_dte_threshold_frames, gt_dte_threshold_frames,
                 num_lte_dte_unique_trading_days, num_gt_dte_unique_trading_days,
                 df_intraday_normalized_lte_dte, df_intraday_normalized_gt_dte>>
  /\ UNCHANGED <<varsDate, varsCOT, varsOpen, varsSettle, varsHeader, varsRename, varsSliding, varsLoad, varsApply, varsCells>>

\* the cells from the sort of the combined table to the frames of the days
NextDTE ==
  \/ DteSortMaster
  \/ DteSplit
  \/ DteUniqueTradingDays
  \/ DteNumUniqueTradingDays
  \/ DteCreateFrames

SpecDTE == InitDTE /\ [][NextDTE]_vars

\* rows of the sorted combined table offered to the normalized pipeline:
\* several contracts may have a bar at the same minute of the same day
NormalizedRows ==
  [DateTime : DteBarTimes, Volume : DteVolumes, Days_To_Contract_Expiration : {0, MaxDTE}]

\* the notebook after the sort cell: master_ungrouped_df is in order of time
InitDteNormalized ==
  /\ dte_pc = "split"
  /\ master_ungrouped_df \in
       {t \in Tables(NormalizedRows, MaxNormalizedRows) \ {<<>>} :
          \A i \in 1..(Len(t) - 1) : t[i].DateTime <= t[i + 1].DateTime}
  /\ DAYS_TO_EXPIRATION_THRESHOLD \in 0..MaxDTE
  /\ less_than_or_equal_dte_threshold_df = <<>>
  /\ greater_than_dte_threshold_df = <<>>
  /\ less_than_or_equal_dte_unique_trading_days = <<>>
  /\ greater_than_dte_unique_trading_days = <<>>
  /\ lte_dte_threshold_frames = <<>>
  /\ gt_dte_threshold_frames = <<>>
  /\ IdleDteNormalized
  /\ IdleDate /\ IdleCOT /\ IdleOpen /\ IdleSettle /\ IdleHeader /\ IdleRename /\ IdleSliding /\ IdleLoad /\ IdleApply /\ IdleCells

\* the cells from the split to the charted tables of the normalized pipeline
NextDteNormalized ==
  \/ DteSplit
  \/ DteUniqueTradingDays
  \/ DteNumUniqueTradingDays
  \/ DteCreateFrames
  \/ DteConcat
  \/ DteGroupByMinute
  \/ DteRenameAndDrop

SpecDteNormalized == InitDteNormalized /\ [][NextDteNormalized]_vars

(***************************************************************************)
(* Properties of commodities_split_by_days_to_expiration.ipynb             *)
(***************************************************************************)
DteSides ==
  << [df |-> less_than_or_equal_dte_threshold_df,
      days |-> less_than_or_equal_dte_unique_trading_days,
      frames |-> lte_dte_threshold_frames],
     [df |-> greater_than_dte_threshold_df,
      days |-> greater_than_dte_unique_trading_days,
      frames |-> gt_dte_threshold_frames] >>

\* C1: split_dataframe_by_dte puts every row with DTE <= t, as often as it
\* occurs in the input, in the first output and nowhere else, every row with
\* DTE > t in the second output and nowhere else; the row counts add up.
C1_SplitByDtePartitions ==
  dte_pc \in {"days", "numbers", "frames", "concat", "group", "rename", "done", "error"} =>
    LET a_df == master_ungrouped_df
        lte == less_than_or_equal_dte_threshold_df
        gt == greater_than_dte_threshold_df
        t == DAYS_TO_EXPIRATION_THRESHOLD
    IN /\ \A r \in Range(a_df) \cup Range(lte) \cup Range(gt) :
            /\ Count(r, lte) =
                 IF r.Days_To_Contract_Expiration <= t THEN Count(r, a_df) ELSE 0
            /\ Count(r, gt) =
                 IF r.Days_To_Contract_Expiration > t THEN Count(r, a_df) ELSE 0
       /\ Len(lte) + Len(gt) = Len(a_df)

\* a split with rows on both sides, one of them exactly at the threshold
C1_Witness ==
  /\ dte_pc = "days"
  /\ greater_than_dte_threshold_df # <<>>
  /\ \E i \in DOMAIN less_than_or_equal_dte_threshold_df :
       less_than_or_equal_dte_threshold_df[i].Days_To_Contract_Expiration
         = DAYS_TO_EXPIRATION_THRESHOLD

\* the rows of df dated on day
RowsOfDay(df, day) == {j \in DOMAIN df : Date(df[j].DateTime) = day}

\* C8: create_dataframes_for_volume_grouped_by_minute returns one frame per
\* unique trading day, in order; frame i holds only rows of day i and its
\* normalized volumes are the min-max scaling against the rows of that day:
\* within [0,1], largest volume of the day at 1 and smallest at 0 when they
\* differ.
C8_FramesPerDayMinMax ==
  dte_pc = "concat" =>
    \A s \in DOMAIN DteSides :
      LET side == DteSides[s]
      IN /\ Len(side.frames) = Len(side.days)
         /\ \A i \in DOMAIN side.frames :
              LET frame == side.frames[i]
                  vols == {side.df[j].Volume : j \in RowsOfDay(side.df, side.days[i])}
                  vmin == SetMin(vols)
                  vmax == SetMax(vols)
              IN \A j \in DOMAIN frame :
                   LET n == frame[j].Volume_Normalized_Intraday
                   IN /\ Date(frame[j].DateTime) = side.days[i]
                      /\ float64_le(float64(0), n)
                      /\ float64_le(n, float64(1))
                      /\ vmax # vmin =>
                           /\ frame[j].Volume = vmax => n = float64(1)
                           /\ frame[j].Volume = vmin => n = float64(0)

\* the two charted tables of the normalized pipeline
DteChartedTables ==
  <<df_intraday_normalized_lte_dte_grouped_by_minute,
    df_intraday_normalized_gt_grouped_by_minute>>

\* C19: every value of the charted columns 'Average Volume <= t DTE' and
\* 'Average Volume > t DTE' (the sum, over the rows at one minute of day, of
\* the normalized volumes, divided by the number of unique trading days of
\* the side) lies between 0 and 1.
C19_AverageNormalizedVolumeInUnitInterval ==
  dte_pc = "done" =>
    \A s \in 1..2 : \A k \in DOMAIN DteChartedTables[s] :
      LET average == DteChartedTables[s][k].Average_Volume
      IN /\ float64_le(float64(0), average)
         /\ float64_le(average, float64(1))

(***************************************************************************)
(* The date-split volume notebook                                          *)
(***************************************************************************)
\* SPLIT_DATE_CUTOFF = '2015-07-02', as datetime.strptime(...).date()
SPLIT_DATE_CUTOFF == 735781

\* bar timestamps offered to the notebook: two minutes of the session with a
\* gap between them on the day before the cutoff, one on the cutoff day
DateBarTimes ==
  {(SPLIT_DATE_CUTOFF - 1) * MinutesPerDay + 510,
   (SPLIT_DATE_CUTOFF - 1) * MinutesPerDay + 512,
   SPLIT_DATE_CUTOFF * MinutesPerDay + 510}

DateRows == [DateTime : DateBarTimes, Volume : 0..MaxVolume]

\* the table split is the notebook variable master_ungrouped_df, whatever
\* the argument df
split_dataframe_by_date(df, split_date) ==
  << SelectSeq(date_master_ungrouped_df, LAMBDA r : Date(r.DateTime) < split_date),
     SelectSeq(date_master_ungrouped_df, LAMBDA r : Date(r.DateTime) >= split_date) >>

\* df.resample('1T').sum(): one bin per minute from the first to the last
\* timestamp, holding the summed Volume of the rows of that minute
resample_1T_first(df) ==
  LET stamps == {df[i].DateTime : i \in DOMAIN df}
  IN [b \in SetMin(stamps)..SetMax(stamps) |->
        IF \E i \in DOMAIN df : df[i].DateTime = b
        THEN df[CHOOSE i \in DOMAIN df :
                  /\ df[i].DateTime = b
                  /\ \A j \in DOMAIN df : df[j].DateTime = b => i <= j].Volume
        ELSE 0]

resample_1T_sum(df) ==
  LET stamps == {df[i].DateTime : i \in DOMAIN df}
  IN [b \in SetMin(stamps)..SetMax(stamps) |->
        SumVolume(SelectSeq(df, LAMBDA r : r.DateTime = b))]

\* df_temp.groupby(lambda x: x.time()).sum(): one row per time of day that
\* occurs among the bins, holding the sum over the bins at that time
groupby_time_sum(df_temp, lo, hi) ==
  LET times == IF hi - lo + 1 >= MinutesPerDay
               THEN 0..(MinutesPerDay - 1)
               ELSE {TimeOfDay(b) : b \in lo..hi}
      first(t) == lo + ((t + MinutesPerDay - TimeOfDay(lo)) % MinutesPerDay)
  IN [t \in times |->
        SumTo([k \in 0..((hi - first(t)) \div MinutesPerDay) |->
                 df_temp[first(t) + k * MinutesPerDay]],
              0, (hi - first(t)) \div MinutesPerDay)]

\* the result maps a time of day to its 'Volume'; an empty table gives an
\* empty result
resample_volume_by_minute(df) ==
  IF df = <<>> THEN <<>>
  ELSE LET stamps == {df[i].DateTime : i \in DOMAIN df}
       IN groupby_time_sum(resample_1T_sum(df), SetMin(stamps), SetMax(stamps))

InitDate ==
  /\ date_pc = "sort"
  /\ date_master_ungrouped_df \in Tables(DateRows, MaxRows) \ {<<>>}
  /\ split_df = <<>>
  /\ before_date_df = <<>>
  /\ after_date_df = <<>>
  /\ before_date_by_minute_df = <<>>
  /\ after_date_by_minute_df = <<>>
  /\ IdleDTE /\ IdleCOT /\ IdleOpen /\ IdleSettle /\ IdleHeader /\ IdleRename /\ IdleSliding /\ IdleLoad /\ IdleApply /\ IdleCells

\* master_ungrouped_df = master_ungrouped_df.sort_values(by=['DateTime'])
DateSortMaster ==
  /\ date_pc = "sort"
  /\ date_master_ungrouped_df' \in sort_values(date_master_ungrouped_df)
  /\ date_pc' = "split"
  /\ UNCHANGED <<split_df, before_date_df, after_date_df,
                 before_date_by_minute_df, after_date_by_minute_df>>
  /\ UNCHANGED <<varsDTE, varsCOT, varsOpen, varsSettle, varsHeader, varsRename, varsSliding, varsLoad, varsApply, varsCells>>

\* tables a caller may pass as df: the notebook passes master_ungrouped_df;
\* another caller passes a table of one bar
SplitArguments ==
  {date_master_ungrouped_df} \cup {<<r>> : r \in [DateTime : DateBarTimes, Volume : {1}]}

\* before_date_df, after_date_df = split_dataframe_by_date(df, SPLIT_DATE_CUTOFF)
DateSplit ==
  /\ date_pc = "split"
  /\ \E df \in SplitArguments :
       LET split == split_dataframe_by_date(df, SPLIT_DATE_CUTOFF)
       IN /\ split_df' = df
          /\ before_date_df' = split[1]
          /\ after_date_df' = split[2]
  /\ date_pc' = "resample"
  /\ UNCHANGED <<date_master_ungrouped_df,
                 before_date_by_minute_df, after_date_by_minute_df>>
  /\ UNCHANGED <<varsDTE, varsCOT, varsOpen, varsSettle, varsHeader, varsRename, varsSliding, varsLoad, varsApply, varsCells>>

DateResample ==
  /\ date_pc = "resample"
  /\ before_date_by_minute_df' = resample_volume_by_minute(before_date_df)
  /\ after_date_by_minute_df' = resample_volume_by_minute(after_date_df)
  /\ date_pc' = "done"
  /\ UNCHANGED <<date_master_ungrouped_df, split_df, before_date_df, after_date_df>>
  /\ UNCHANGED <<varsDTE, varsCOT, varsOpen, varsSettle, varsHeader, varsRename, varsSliding, varsLoad, varsApply, varsCells>>

NextDate ==
  \/ DateSortMaster
  \/ DateSplit
  \/ DateResample

SpecDate == InitDate /\ [][NextDate]_vars

(***************************************************************************)
(* Properties of the date-split volume notebook                            *)
(***************************************************************************)
\* C6: split_dataframe_by_date(df, split_date) splits its argument df: the
\* first output holds exactly the rows of df dated before split_date, the
\* second exactly the other rows of df, and the row counts add up to the row
\* count of df.
C6_SplitByDateSplitsArgument ==
  date_pc \in {"resample", "done"} =>
    /\ \A r \in Range(split_df) \cup Range(before_date_df) \cup Range(after_date_df) :
         /\ Count(r, before_date_df) =
              IF Date(r.DateTime) < SPLIT_DATE_CUTOFF THEN Count(r, split_df) ELSE 0
         /\ Count(r, after_date_df) =
              IF Date(r.DateTime) >= SPLIT_DATE_CUTOFF THEN Count(r, split_df) ELSE 0
    /\ Len(before_date_df) + Len(after_date_df) = Len(split_df)

DateSides ==
  << [df |-> before_date_df, by_minute |-> before_date_by_minute_df],
     [df |-> after_date_df, by_minute |-> after_date_by_minute_df] >>

\* total of a by-minute table over all times of day
ByMinuteTotal(by_minute) ==
  SumTo([t \in 0..(MinutesPerDay - 1) |->
           IF t \in DOMAIN by_minute THEN by_minute[t] ELSE 0],
        0, MinutesPerDay - 1)

\* C9: resample_volume_by_minute conserves volume: for a non-empty input the
\* by-minute totals add up to the input's total volume; a time of day holds
\* the summed volume of all input rows at that time, 0 when there are none.
C9_ResampleConservesVolume ==
  date_pc = "done" =>
    \A s \in DOMAIN DateSides :
      LET side == DateSides[s]
      IN side.df # <<>> =>
           /\ ByMinuteTotal(side.by_minute) = SumVolume(side.df)
           /\ \A t \in DOMAIN side.by_minute :
                side.by_minute[t] =
                  SumVolume(SelectSeq(side.df, LAMBDA r : TimeOfDay(r.DateTime) = t))

\* two rows with positive volume share a timestamp, and a minute without any
\* row lies inside the resampled range
C9_Witness ==
  /\ date_pc = "done"
  /\ \E i, j \in DOMAIN before_date_df :
       /\ i # j
       /\ before_date_df[i].DateTime = before_date_df[j].DateTime
       /\ before_date_df[i].Volume > 0
       /\ before_date_df[j].Volume > 0
  /\ \E t \in DOMAIN before_date_by_minute_df :
       /\ before_date_by_minute_df[t] = 0
       /\ \A i \in DOMAIN before_date_df : TimeOfDay(before_date_df[i].DateTime) # t

(***************************************************************************)
(* commodities_split_by_cot_short_interest.ipynb                           *)
(***************************************************************************)
\* report observation dates offered to the notebook: the Tuesdays of two
\* weeks, as timestamps at midnight
CotReportDates ==
  {d * MinutesPerDay : d \in {e \in BaseDay..(BaseDay + 13) : weekday(e) = 1}}

\* Shorts stands for 'Producer/Merchant/Processor/User Shorts - % of OI'
CotRows == [Date : CotReportDates, Shorts : 0..MaxShorts]

\* bar timestamps offered to the notebook: the first and the last minute of
\* seven consecutive days
CotBarTimes ==
  {d * MinutesPerDay + m : d \in (BaseDay + 7)..(BaseDay + 13), m \in {0, MinutesPerDay - 1}}

CotBarRows == [DateTime : CotBarTimes]

\* the k-th smallest value of a column
kth_smallest(col, k) ==
  CHOOSE v \in Range(col) :
    /\ Cardinality({i \in DOMAIN col : col[i] < v}) < k
    /\ Cardinality({i \in DOMAIN col : col[i] <= v}) >= k

\* Series.median(): the middle value, or the mean of the two middle values;
\* kept exact as numerator and denominator
median(col) ==
  LET n == Len(col)
  IN IF n % 2 = 1
     THEN [num |-> kth_smallest(col, (n + 1) \div 2), den |-> 1]
     ELSE [num |-> kth_smallest(col, n \div 2) + kth_smallest(col, n \div 2 + 1),
           den |-> 2]

\* value >= q and value < q for an exact quotient q
GreaterEqual(value, q) == value * q.den >= q.num

Less(value, q) == value * q.den < q.num

filter_and_split_cot_shorts_strictly_above(cot_df_arg, median_arg) ==
  [above_median_df |->
     SelectSeq(cot_df_arg, LAMBDA r : r.Shorts * median_arg.den > median_arg.num),
   below_median_df |-> SelectSeq(cot_df_arg, LAMBDA r : Less(r.Shorts, median_arg))]

filter_and_split_cot_shorts_around_median(cot_df_arg, median_arg) ==
  [above_median_df |-> SelectSeq(cot_df_arg, LAMBDA r : GreaterEqual(r.Shorts, median_arg)),
   below_median_df |-> SelectSeq(cot_df_arg, LAMBDA r : Less(r.Shorts, median_arg))]

\* variant that returns the most recent Tuesday on or before the bar's date
date_of_most_recent_tuesday(a_date) ==
  Date(a_date - ((weekday(Date(a_date)) + 6) % 7) * MinutesPerDay)

date_of_preceding_tuesday(a_date) ==
  LET day_of_week == weekday(Date(a_date))
      days_since_preceding_tuesday ==
        CASE day_of_week = 0 -> 6
          [] day_of_week = 1 -> 7
          [] day_of_week = 2 -> 8
          [] day_of_week = 3 -> 9
          [] day_of_week = 4 -> 10
          [] day_of_week = 5 -> 11
          [] day_of_week = 6 -> 12
      preceding_tuesday_date == a_date - days_since_preceding_tuesday * MinutesPerDay
  IN Date(preceding_tuesday_date)

\* df[column] = values: the rows of df with one more column
with_column(df, column, values) ==
  [i \in DOMAIN df |->
     [f \in DOMAIN df[i] \cup {column} |-> IF f = column THEN values[i] ELSE df[i][f]]]

InitCOT ==
  /\ cot_pc = "median"
  /\ cot_df \in Tables(CotRows, MaxRows) \ {<<>>}
  /\ intraday_true_open_df \in Tables(CotBarRows, MaxBars)
  /\ median_pmpu_shorts_percentage = [num |-> 0, den |-> 1]
  /\ pmpu_shorts_split_by_median = [above_median_df |-> <<>>, below_median_df |-> <<>>]
  /\ IdleDTE /\ IdleDate /\ IdleOpen /\ IdleSettle /\ IdleHeader /\ IdleRename /\ IdleSliding /\ IdleLoad /\ IdleApply /\ IdleCells

\* median_pmpu_shorts_percentage = cot_df[...].median()
CotMedian ==
  /\ cot_pc = "median"
  /\ median_pmpu_shorts_percentage' = median([i \in DOMAIN cot_df |-> cot_df[i].Shorts])
  /\ cot_pc' = "split"
  /\ UNCHANGED <<cot_df, pmpu_shorts_split_by_median, intraday_true_open_df>>
  /\ UNCHANGED <<varsDTE, varsDate, varsOpen, varsSettle, varsHeader, varsRename, varsSliding, varsLoad, varsApply, varsCells>>

CotSplitAroundMedian ==
  /\ cot_pc = "split"
  /\ pmpu_shorts_split_by_median' =
       filter_and_split_cot_shorts_around_median(cot_df, median_pmpu_shorts_percentage)
  /\ cot_pc' = "tuesday"
  /\ UNCHANGED <<cot_df, median_pmpu_shorts_percentage, intraday_true_open_df>>
  /\ UNCHANGED <<varsDTE, varsDate, varsOpen, varsSettle, varsHeader, varsRename, varsSliding, varsLoad, varsApply, varsCells>>

\* intraday_true_open_df['Date Of Preceding Tuesday'] =
\*   intraday_true_open_df['DateTime'].apply(date_of_preceding_tuesday)
\* (the sliding-open table gets the same column by the same call)
CotPrecedingTuesday ==
  /\ cot_pc = "tuesday"
  /\ intraday_true_open_df' =
       with_column(intraday_true_open_df, "Date_Of_Preceding_Tuesday",
         [i \in DOMAIN intraday_true_open_df |->
            date_of_preceding_tuesday(intraday_true_open_df[i].DateTime)])
  /\ cot_pc' = "done"
  /\ UNCHANGED <<cot_df, median_pmpu_shorts_percentage, pmpu_shorts_split_by_median>>
  /\ UNCHANGED <<varsDTE, varsDate, varsOpen, varsSettle, varsHeader, varsRename, varsSliding, varsLoad, varsApply, varsCells>>

NextCOT ==
  \/ CotMedian
  \/ CotSplitAroundMedian
  \/ CotPrecedingTuesday

SpecCOT == InitCOT /\ [][NextCOT]_vars

(***************************************************************************)
(* Properties of commodities_split_by_cot_short_interest.ipynb             *)
(***************************************************************************)
\* the Monday that starts the Monday-to-Sunday week of a day
WeekStart(day) == day - weekday(day)

\* C2: for every bar the 'Date Of Preceding Tuesday' is a Tuesday, 6 to 12
\* days before the bar's date, inside the previous Monday-to-Sunday week, and
\* its publication day (Tuesday + 3) is before the bar's date.
C2_PrecedingTuesdayIsLastWeeks ==
  cot_pc = "done" =>
    \A i \in DOMAIN intraday_true_open_df :
      LET bar_date == Date(intraday_true_open_df[i].DateTime)
          tuesday == intraday_true_open_df[i].Date_Of_Preceding_Tuesday
      IN /\ weekday(tuesday) = 1
         /\ bar_date - tuesday >= 6
         /\ bar_date - tuesday <= 12
         /\ tuesday >= WeekStart(bar_date) - 7
         /\ tuesday < WeekStart(bar_date)
         /\ tuesday + 3 < bar_date

\* a bar in the last minute of a Sunday, the day furthest from its Tuesday
C2_Witness ==
  /\ cot_pc = "done"
  /\ \E i \in DOMAIN intraday_true_open_df :
       /\ weekday(Date(intraday_true_open_df[i].DateTime)) = 6
       /\ TimeOfDay(intraday_true_open_df[i].DateTime) = MinutesPerDay - 1
       /\ Date(intraday_true_open_df[i].DateTime)
            - intraday_true_open_df[i].Date_Of_Preceding_Tuesday = 12

\* C7: filter_and_split_cot_shorts_around_median puts every report row, as
\* often as it occurs, in above_median_df when its value is >= the median and
\* in below_median_df when it is below, and nowhere else; the row counts add
\* up to the row count of cot_df.
C7_SplitAroundMedianPartitions ==
  cot_pc \in {"tuesday", "done"} =>
    LET above == pmpu_shorts_split_by_median.above_median_df
        below == pmpu_shorts_split_by_median.below_median_df
        m == median_pmpu_shorts_percentage
    IN /\ \A r \in Range(cot_df) \cup Range(above) \cup Range(below) :
            /\ Count(r, above) =
                 IF r.Shorts * m.den >= m.num THEN Count(r, cot_df) ELSE 0
            /\ Count(r, below) =
                 IF r.Shorts * m.den < m.num THEN Count(r, cot_df) ELSE 0
       /\ Len(above) + Len(below) = Len(cot_df)

\* a report equal to the median sits in above_median_df, next to a report
\* above the median, and another report is below the median
C7_Witness ==
  /\ cot_pc = "tuesday"
  /\ pmpu_shorts_split_by_median.below_median_df # <<>>
  /\ \E i, j \in DOMAIN pmpu_shorts_split_by_median.above_median_df :
       LET above == pmpu_shorts_split_by_median.above_median_df
       IN /\ above[i].Shorts * median_pmpu_shorts_percentage.den
               = median_pmpu_shorts_percentage.num
          /\ above[j].Shorts * median_pmpu_shorts_percentage.den
               > median_pmpu_shorts_percentage.num

(***************************************************************************)
(* commodities_analyze_missing_open_bars.ipynb                             *)
(***************************************************************************)
OpenSymbols == {"LEG15", "LEJ15"}

\* rows offered as contract_open_enriched_sliding_open.csv: bars of two days,
\* 'Open Minutes Offset' minutes after the session open
OpenRows ==
  {[Symbol |-> sym, DateTime |-> d * MinutesPerDay + 510 + o, Open_Minutes_Offset |-> o] :
     sym \in OpenSymbols, d \in {BaseDay, BaseDay + 1}, o \in 0..MaxOffset}

\* x.strftime("%Y-%m-%d"): the calendar date of the timestamp, as text
strftime_date(ts) == Date(ts)

\* contract_df[contract_df['Symbol'] == symbol]
rows_of_symbol(contract_df, symbol) == SelectSeq(contract_df, LAMBDA r : r.Symbol = symbol)

\* variant that counts the dates of all symbols
calculate_num_unique_dates_of_table(contract_df, symbol) ==
  Len(unique([i \in DOMAIN contract_df |-> contract_df[i].Date]))

calculate_num_unique_dates_for_contract(contract_df, symbol) ==
  LET missing_open_for_contract_df == rows_of_symbol(contract_df, symbol)
      missing_open_dates_series_unique ==
        unique([i \in DOMAIN missing_open_for_contract_df |->
                  missing_open_for_contract_df[i].Date])
  IN Len(missing_open_dates_series_unique)

\* contract_df['DateTime'].dt.date.unique()
unique_dates_of(contract_df) ==
  unique([i \in DOMAIN contract_df |-> Date(contract_df[i].DateTime)])

\* has_actual_open_bar of the loop body, for a_date in contract_df
has_actual_open_bar(contract_df, a_date) ==
  LET only_this_days_rows_df ==
        SelectSeq(contract_df, LAMBDA r : Date(r.DateTime) = a_date)
  IN 0 \in {only_this_days_rows_df[i].Open_Minutes_Offset :
              i \in DOMAIN only_this_days_rows_df}

\* contract_df[contract_df['DateTime'].dt.date != a_date]
without_date(contract_df, a_date) ==
  SelectSeq(contract_df, LAMBDA r : Date(r.DateTime) # a_date)

RECURSIVE missing_open_loop(_, _)
\* the for loop of filter_rows_where_day_is_missing_open over unique_dates
missing_open_loop(contract_df, remaining_dates) ==
  IF remaining_dates = <<>> THEN contract_df
  ELSE missing_open_loop(
         IF ~has_actual_open_bar(contract_df, Head(remaining_dates))
         THEN without_date(contract_df, Head(remaining_dates))
         ELSE contract_df,
         Tail(remaining_dates))

RECURSIVE contains_open_loop(_, _)
\* the for loop of filter_rows_where_day_contains_open over unique_dates
contains_open_loop(contract_df, remaining_dates) ==
  IF remaining_dates = <<>> THEN contract_df
  ELSE contains_open_loop(
         IF has_actual_open_bar(contract_df, Head(remaining_dates))
         THEN without_date(contract_df, Head(remaining_dates))
         ELSE contract_df,
         Tail(remaining_dates))

\* variant that keeps the bars at the open instead of the days with an open
filter_rows_keep_open_bars(contract_df) ==
  SelectSeq(contract_df, LAMBDA r : r.Open_Minutes_Offset = 0)

filter_rows_where_day_is_missing_open(contract_df) ==
  missing_open_loop(contract_df, unique_dates_of(contract_df))

filter_rows_where_day_contains_open(contract_df) ==
  contains_open_loop(contract_df, unique_dates_of(contract_df))

InitOpen ==
  /\ open_pc = "date"
  /\ contract_open_enriched_df \in Tables(OpenRows, MaxRows) \ {<<>>}
  /\ unique_symbols = <<>>
  /\ open_i = 0
  /\ rows_with_missing_open_df = <<>>
  /\ rows_with_populated_open_df = <<>>
  /\ open_bar_by_contract_count_df = <<>>
  /\ days_to_expiration_open_bar_count_df = <<>>
  /\ IdleDTE /\ IdleDate /\ IdleCOT /\ IdleSettle /\ IdleHeader /\ IdleRename /\ IdleSliding /\ IdleLoad /\ IdleApply /\ IdleCells

\* contract_open_enriched_df['Date'] = ...apply(lambda x: x.strftime("%Y-%m-%d"))
OpenAddDate ==
  /\ open_pc = "date"
  /\ contract_open_enriched_df' =
       with_column(contract_open_enriched_df, "Date",
         [i \in DOMAIN contract_open_enriched_df |->
            strftime_date(contract_open_enriched_df[i].DateTime)])
  /\ open_pc' = "symbols"
  /\ UNCHANGED <<unique_symbols, open_i, rows_with_missing_open_df,
                 rows_with_populated_open_df, open_bar_by_contract_count_df>>
  /\ UNCHANGED days_to_expiration_open_bar_count_df
  /\ UNCHANGED <<varsDTE, varsDate, varsCOT, varsSettle, varsHeader, varsRename, varsSliding, varsLoad, varsApply, varsCells>>

\* unique_symbols = contract_open_enriched_df.Symbol.unique()
OpenUniqueSymbols ==
  /\ open_pc = "symbols"
  /\ unique_symbols' =
       unique([i \in DOMAIN contract_open_enriched_df |-> contract_open_enriched_df[i].Symbol])
  /\ open_pc' = "populate_init"
  /\ UNCHANGED <<contract_open_enriched_df, open_i, rows_with_missing_open_df,
                 rows_with_populated_open_df, open_bar_by_contract_count_df>>
  /\ UNCHANGED days_to_expiration_open_bar_count_df
  /\ UNCHANGED <<varsDTE, varsDate, varsCOT, varsSettle, varsHeader, varsRename, varsSliding, varsLoad, varsApply, varsCells>>

\* the first two statements of the populating cell:
\* rows_with_missing_open_df = pd.DataFrame() and
\* rows_with_populated_open_df = pd.DataFrame(); the loop follows, and the
\* cell ends here when there is no symbol
OpenInitPopulate ==
  /\ open_pc = "populate_init"
  /\ rows_with_missing_open_df' = <<>>
  /\ rows_with_populated_open_df' = <<>>
  /\ open_i' = 1
  /\ open_pc' = IF unique_symbols = <<>> THEN "count_init" ELSE "populate"
  /\ UNCHANGED <<contract_open_enriched_df, unique_symbols, open_bar_by_contract_count_df>>
  /\ UNCHANGED days_to_expiration_open_bar_count_df
  /\ UNCHANGED <<varsDTE, varsDate, varsCOT, varsSettle, varsHeader, varsRename, varsSliding, varsLoad, varsApply, varsCells>>

\* one iteration of the populating loop
OpenPopulateStep ==
  /\ open_pc = "populate"
  /\ open_i <= Len(unique_symbols)
  /\ LET symbol == unique_symbols[open_i]
         rows_for_one_contract_df == rows_of_symbol(contract_open_enriched_df, symbol)
         rows_for_one_contract_missing_open_df ==
           filter_rows_where_day_contains_open(rows_for_one_contract_df)
         rows_for_one_contract_containing_open_df ==
           filter_rows_where_day_is_missing_open(rows_for_one_contract_df)
     IN /\ rows_with_missing_open_df' =
             rows_with_missing_open_df \o rows_for_one_contract_missing_open_df
        /\ rows_with_populated_open_df' =
             rows_with_populated_open_df \o rows_for_one_contract_containing_open_df
  /\ open_i' = open_i + 1
  /\ open_pc' = IF open_i = Len(unique_symbols) THEN "count_init" ELSE "populate"
  /\ UNCHANGED <<contract_open_enriched_df, unique_symbols, open_bar_by_contract_count_df>>
  /\ UNCHANGED days_to_expiration_open_bar_count_df
  /\ UNCHANGED <<varsDTE, varsDate, varsCOT, varsSettle, varsHeader, varsRename, varsSliding, varsLoad, varsApply, varsCells>>

\* open_bar_by_contract_count_df = pd.DataFrame(columns=[...])
OpenInitCount ==
  /\ open_pc = "count_init"
  /\ open_bar_by_contract_count_df' = <<>>
  /\ open_i' = 1
  /\ open_pc' = "count"
  /\ UNCHANGED <<contract_open_enriched_df, unique_symbols,
                 rows_with_missing_open_df, rows_with_populated_open_df>>
  /\ UNCHANGED days_to_expiration_open_bar_count_df
  /\ UNCHANGED <<varsDTE, varsDate, varsCOT, varsSettle, varsHeader, varsRename, varsSliding, varsLoad, varsApply, varsCells>>

\* one iteration of the per-contract counting loop
OpenCountStep ==
  /\ open_pc = "count"
  /\ open_i <= Len(unique_symbols)
  /\ LET symbol == unique_symbols[open_i]
         num_unique_dates_with_missing_open ==
           calculate_num_unique_dates_for_contract(rows_with_missing_open_df, symbol)
         num_unique_dates_with_open ==
           calculate_num_unique_dates_for_contract(rows_with_populated_open_df, symbol)
     IN open_bar_by_contract_count_df' =
          Append(open_bar_by_contract_count_df,
                 [Symbol |-> symbol,
                  Days_Without_Open_Bar |-> num_unique_dates_with_missing_open,
                  Days_With_Open_Bar |-> num_unique_dates_with_open])
  /\ open_i' = open_i + 1
  /\ open_pc' = IF open_i = Len(unique_symbols) THEN "done" ELSE "count"
  /\ UNCHANGED <<contract_open_enriched_df, unique_symbols,
                 rows_with_missing_open_df, rows_with_populated_open_df>>
  /\ UNCHANGED days_to_expiration_open_bar_count_df
  /\ UNCHANGED <<varsDTE, varsDate, varsCOT, varsSettle, varsHeader, varsRename, varsSliding, varsLoad, varsApply, varsCells>>

NextOpen ==
  \/ OpenAddDate
  \/ OpenUniqueSymbols
  \/ OpenInitPopulate
  \/ OpenPopulateStep
  \/ OpenInitCount
  \/ OpenCountStep

SpecOpen == InitOpen /\ [][NextOpen]_vars

\* the end of range(0, 601), the 'DTE' values of the counting table
DTE_RANGE_END == 601

\* the expiration dates of the contracts: the day after the first bars, or
\* so late that the days of the bars lie beyond the counting table
OpenExpirationDays == {BaseDay + 1, BaseDay + 1 + DTE_RANGE_END}

\* the 'DTE' column of contract_open_enriched_sliding_open.csv: the days
\* from the date of the bar to the expiration of its contract
days_to_expiration(expiration, row) == expiration[row.Symbol] - Date(row.DateTime)

\* the notebook started on a file whose rows carry the 'DTE' column
InitOpenDte ==
  /\ open_pc = "date"
  /\ \E t \in Tables(OpenRows, MaxOpenDteRows) \ {<<>>},
        expiration \in [OpenSymbols -> OpenExpirationDays] :
       contract_open_enriched_df =
         with_column(t, "DTE", [i \in DOMAIN t |-> days_to_expiration(expiration, t[i])])
  /\ unique_symbols = <<>>
  /\ open_i = 0
  /\ rows_with_missing_open_df = <<>>
  /\ rows_with_populated_open_df = <<>>
  /\ open_bar_by_contract_count_df = <<>>
  /\ days_to_expiration_open_bar_count_df = <<>>
  /\ IdleDTE /\ IdleDate /\ IdleCOT /\ IdleSettle /\ IdleHeader /\ IdleRename /\ IdleSliding /\ IdleLoad /\ IdleApply /\ IdleCells

\* days_to_expiration_open_bar_count_df = pd.DataFrame(data={'DTE':
\* pd.Series(range(0,601)), 'Days Without Open Bar': 0, 'Days With Open
\* Bar': 0}); row i of the sequence is the row of index i - 1
OpenInitDteCount ==
  /\ open_pc = "done"
  /\ days_to_expiration_open_bar_count_df' =
       [i \in 1..DTE_RANGE_END |->
          [DTE |-> i - 1, Days_Without_Open_Bar |-> 0, Days_With_Open_Bar |-> 0]]
  /\ open_i' = 1
  /\ open_pc' = "dte_count"
  /\ UNCHANGED <<contract_open_enriched_df, unique_symbols, rows_with_missing_open_df,
                 rows_with_populated_open_df, open_bar_by_contract_count_df>>
  /\ UNCHANGED <<varsDTE, varsDate, varsCOT, varsSettle, varsHeader, varsRename, varsSliding, varsLoad, varsApply, varsCells>>

\* index_of_row_to_increment = count_df.index[count_df['DTE'] == dte_value];
\* count_df.at[index_of_row_to_increment, column] = current_value + 1: the
\* rows of that 'DTE' get one more, and no row when the value is not in the
\* table
increment_at_dte(count_df, column, dte_value) ==
  [i \in DOMAIN count_df |->
     IF count_df[i].DTE = dte_value
     THEN [count_df[i] EXCEPT ![column] = @ + 1]
     ELSE count_df[i]]

RECURSIVE increment_for_each_dte(_, _, _)
\* for a_dte_value in dte_values: the increment of the row of that value
increment_for_each_dte(count_df, column, dte_values) ==
  IF dte_values = <<>> THEN count_df
  ELSE increment_for_each_dte(increment_at_dte(count_df, column, Head(dte_values)),
                              column, Tail(dte_values))

\* one iteration of the loop that counts by 'DTE'
OpenDteCountStep ==
  /\ open_pc = "dte_count"
  /\ open_i <= Len(unique_symbols)
  /\ LET symbol == unique_symbols[open_i]
         missing_open_for_contract_df == rows_of_symbol(rows_with_missing_open_df, symbol)
         populated_open_for_contract_df == rows_of_symbol(rows_with_populated_open_df, symbol)
         dte_values_with_missing_open_bar ==
           unique([i \in DOMAIN missing_open_for_contract_df |->
                     missing_open_for_contract_df[i].DTE])
         dte_values_with_populated_open_bar ==
           unique([i \in DOMAIN populated_open_for_contract_df |->
                     populated_open_for_contract_df[i].DTE])
     IN days_to_expiration_open_bar_count_df' =
          increment_for_each_dte(
            increment_for_each_dte(days_to_expiration_open_bar_count_df,
                                   "Days_Without_Open_Bar", dte_values_with_missing_open_bar),
            "Days_With_Open_Bar", dte_values_with_populated_open_bar)
  /\ open_i' = open_i + 1
  /\ open_pc' = IF open_i = Len(unique_symbols) THEN "dte_done" ELSE "dte_count"
  /\ UNCHANGED <<contract_open_enriched_df, unique_symbols, rows_with_missing_open_df,
                 rows_with_populated_open_df, open_bar_by_contract_count_df>>
  /\ UNCHANGED <<varsDTE, varsDate, varsCOT, varsSettle, varsHeader, varsRename, varsSliding, varsLoad, varsApply, varsCells>>

NextOpenDte ==
  \/ NextOpen
  \/ OpenInitDteCount
  \/ OpenDteCountStep

SpecOpenDte == InitOpenDte /\ [][NextOpenDte]_vars

RECURSIVE count_for_each_symbol(_, _, _, _)
\* for symbol in unique_symbols: count_df = count_df.append({...},
\* ignore_index=True), the whole loop of the per-contract counting cell
count_for_each_symbol(count_df, symbols, missing_df, populated_df) ==
  IF symbols = <<>> THEN count_df
  ELSE count_for_each_symbol(
         Append(count_df,
                [Symbol |-> Head(symbols),
                 Days_Without_Open_Bar |->
                   calculate_num_unique_dates_for_contract(missing_df, Head(symbols)),
                 Days_With_Open_Bar |->
                   calculate_num_unique_dates_for_contract(populated_df, Head(symbols))]),
         Tail(symbols), missing_df, populated_df)

RECURSIVE increment_for_each_symbol(_, _, _, _)
\* for i in trange(len(unique_symbols)): the whole loop of the cell that
\* counts by 'DTE'
increment_for_each_symbol(count_df, symbols, missing_df, populated_df) ==
  IF symbols = <<>> THEN count_df
  ELSE LET missing_open_for_contract_df == rows_of_symbol(missing_df, Head(symbols))
           populated_open_for_contract_df == rows_of_symbol(populated_df, Head(symbols))
           dte_values_with_missing_open_bar ==
             unique([i \in DOMAIN missing_open_for_contract_df |->
                       missing_open_for_contract_df[i].DTE])
           dte_values_with_populated_open_bar ==
             unique([i \in DOMAIN populated_open_for_contract_df |->
                       populated_open_for_contract_df[i].DTE])
       IN increment_for_each_symbol(
            increment_for_each_dte(
              increment_for_each_dte(count_df, "Days_Without_Open_Bar",
                                     dte_values_with_missing_open_bar),
              "Days_With_Open_Bar", dte_values_with_populated_open_bar),
            Tail(symbols), missing_df, populated_df)

\* the per-contract counting cell executed once more, after its first
\* execution and without the cell that initialises its table
OpenCountCellAgain ==
  /\ open_pc = "done"
  /\ open_bar_by_contract_count_df' =
       count_for_each_symbol(open_bar_by_contract_count_df, unique_symbols,
                             rows_with_missing_open_df, rows_with_populated_open_df)
  /\ open_pc' = "count_again"
  /\ UNCHANGED <<contract_open_enriched_df, unique_symbols, open_i, rows_with_missing_open_df,
                 rows_with_populated_open_df, days_to_expiration_open_bar_count_df>>
  /\ UNCHANGED <<varsDTE, varsDate, varsCOT, varsSettle, varsHeader, varsRename, varsSliding, varsLoad, varsApply, varsCells>>

\* the cell that counts by 'DTE' executed once more, after its first
\* execution and without the cell that initialises its table
OpenDteCountCellAgain ==
  /\ open_pc = "dte_done"
  /\ days_to_expiration_open_bar_count_df' =
       increment_for_each_symbol(days_to_expiration_open_bar_count_df, unique_symbols,
                                 rows_with_missing_open_df, rows_with_populated_open_df)
  /\ open_pc' = "dte_count_again"
  /\ UNCHANGED <<contract_open_enriched_df, unique_symbols, open_i, rows_with_missing_open_df,
                 rows_with_populated_open_df, open_bar_by_contract_count_df>>
  /\ UNCHANGED <<varsDTE, varsDate, varsCOT, varsSettle, varsHeader, varsRename, varsSliding, varsLoad, varsApply, varsCells>>

\* the cells from top to bottom, and either counting cell a second time
NextOpenAgain ==
  \/ NextOpenDte
  \/ OpenCountCellAgain
  \/ OpenDteCountCellAgain

SpecOpenAgain == InitOpenDte /\ [][NextOpenAgain]_vars

(***************************************************************************)
(* Properties of commodities_analyze_missing_open_bars.ipynb               *)
(***************************************************************************)
\* the symbols whose iteration of the populating loop has completed
PopulatedSymbols ==
  IF open_pc = "populate" THEN {unique_symbols[k] : k \in 1..(open_i - 1)}
  ELSE IF open_pc \in {"count_init", "count", "done", "dte_count", "dte_done",
                        "count_again", "dte_count_again"}
       THEN Range(unique_symbols)
  ELSE {}

\* some bar of the symbol on that calendar day is at the open
DayHasOpenBar(symbol, day) ==
  \E i \in DOMAIN contract_open_enriched_df :
    /\ contract_open_enriched_df[i].Symbol = symbol
    /\ Date(contract_open_enriched_df[i].DateTime) = day
    /\ contract_open_enriched_df[i].Open_Minutes_Offset = 0

\* C3: for every contract table, filter_rows_where_day_is_missing_open
\* returns exactly the rows of the days that have a bar with 'Open Minutes
\* Offset' 0 and filter_rows_where_day_contains_open exactly the other rows:
\* each row of the contract is in exactly one result, a whole day at a time.
C3_FiltersPartitionByDay ==
  \A symbol \in PopulatedSymbols :
    /\ \A r \in Range(contract_open_enriched_df) :
         r.Symbol = symbol =>
           /\ Count(r, rows_with_populated_open_df) =
                IF DayHasOpenBar(symbol, Date(r.DateTime))
                THEN Count(r, contract_open_enriched_df) ELSE 0
           /\ Count(r, rows_with_missing_open_df) =
                IF DayHasOpenBar(symbol, Date(r.DateTime))
                THEN 0 ELSE Count(r, contract_open_enriched_df)
    /\ \A r \in Range(rows_with_populated_open_df) \cup Range(rows_with_missing_open_df) :
         r.Symbol = symbol => r \in Range(contract_open_enriched_df)

\* a contract with a day that has its open bar plus a later bar, and a day
\* that has only a later bar
C3_Witness ==
  /\ open_pc = "count_init"
  /\ \E i, j \in DOMAIN rows_with_populated_open_df :
       /\ rows_with_populated_open_df[i].Symbol = rows_with_populated_open_df[j].Symbol
       /\ rows_with_populated_open_df[i].Open_Minutes_Offset = 0
       /\ rows_with_populated_open_df[j].Open_Minutes_Offset > 0
       /\ \E k \in DOMAIN rows_with_missing_open_df :
            rows_with_missing_open_df[k].Symbol = rows_with_populated_open_df[i].Symbol

\* the calendar days on which the symbol has a bar in the table
DaysOfSymbol(df, symbol) ==
  {Date(df[i].DateTime) : i \in {k \in DOMAIN df : df[k].Symbol = symbol}}

\* C4: every row of open_bar_by_contract_count_df has 'Days Without Open
\* Bar' + 'Days With Open Bar' equal to the number of distinct calendar dates
\* of its symbol, and no date of the symbol is counted under both columns.
C4_DayCountsAddUp ==
  open_pc \in {"count", "done"} =>
    \A k \in DOMAIN open_bar_by_contract_count_df :
      LET row == open_bar_by_contract_count_df[k]
          without == DaysOfSymbol(rows_with_missing_open_df, row.Symbol)
          with == DaysOfSymbol(rows_with_populated_open_df, row.Symbol)
      IN /\ row.Days_Without_Open_Bar + row.Days_With_Open_Bar
              = Cardinality(DaysOfSymbol(contract_open_enriched_df, row.Symbol))
         /\ row.Days_Without_Open_Bar = Cardinality(without)
         /\ row.Days_With_Open_Bar = Cardinality(with)
         /\ without \cap with = {}

\* two contracts are counted; one of them has a day with and a day without
\* an open bar
C4_Witness ==
  /\ open_pc = "done"
  /\ Len(open_bar_by_contract_count_df) = 2
  /\ \E k \in DOMAIN open_bar_by_contract_count_df :
       /\ open_bar_by_contract_count_df[k].Days_Without_Open_Bar = 1
       /\ open_bar_by_contract_count_df[k].Days_With_Open_Bar = 1

\* the contract trading days with the given 'DTE' whose day has (with_open)
\* or lacks an open bar
ContractDaysAtDte(dte_value, with_open) ==
  {<<contract_open_enriched_df[i].Symbol, Date(contract_open_enriched_df[i].DateTime)>> :
     i \in {k \in DOMAIN contract_open_enriched_df :
              /\ contract_open_enriched_df[k].DTE = dte_value
              /\ DayHasOpenBar(contract_open_enriched_df[k].Symbol,
                               Date(contract_open_enriched_df[k].DateTime)) = with_open}}

\* the total of a column of a table of counts
ColumnTotal(df, column) == SumTo([i \in DOMAIN df |-> df[i][column]], 1, Len(df))

\* C18: after the loop that counts by 'DTE', every row of
\* days_to_expiration_open_bar_count_df holds the number of contract trading
\* days with its 'DTE' that lack an open bar and the number that have one,
\* and the totals of the two columns equal the totals of the same columns of
\* open_bar_by_contract_count_df.
C18_DteCountsCoverEveryContractDay ==
  open_pc = "dte_done" =>
    /\ \A k \in DOMAIN days_to_expiration_open_bar_count_df :
         LET row == days_to_expiration_open_bar_count_df[k]
         IN /\ row.Days_Without_Open_Bar = Cardinality(ContractDaysAtDte(row.DTE, FALSE))
            /\ row.Days_With_Open_Bar = Cardinality(ContractDaysAtDte(row.DTE, TRUE))
    /\ ColumnTotal(days_to_expiration_open_bar_count_df, "Days_Without_Open_Bar")
         = ColumnTotal(open_bar_by_contract_count_df, "Days_Without_Open_Bar")
    /\ ColumnTotal(days_to_expiration_open_bar_count_df, "Days_With_Open_Bar")
         = ColumnTotal(open_bar_by_contract_count_df, "Days_With_Open_Bar")

(***************************************************************************)
(* settlement_and_open_correlation_analysis.ipynb                          *)
(***************************************************************************)
SettleSymbols == {"LEG15", "LEJ15"}

\* an empty cell of a csv file, as read_csv reads it: a number that is no price
NaN == -1

\* Python's None, a value that is no price
None == -2

\* an IndexError raised by a lookup, a value that is no price
IndexError == -3

\* rows offered as a settlement file; Price_Difference stands for 'Price
\* Difference b/w Open And Prior Day Settlement'
SettleRows ==
  [Date : {d * MinutesPerDay : d \in {BaseDay, BaseDay + 1}},
   Symbol : SettleSymbols, Price_Difference : {NaN, 1, 2}]

\* settlement files hold at most one row per symbol and date
SettleTables ==
  {t \in Tables(SettleRows, MaxSettleRows) :
     \A i, j \in DOMAIN t :
       (t[i].Symbol = t[j].Symbol /\ t[i].Date = t[j].Date) => i = j}

\* bars offered as the intraday files after the DTE filter: a bar at 'Open
\* Minutes Offset' 59 on the first day and one at offset 58 on the second;
\* Price_Change stands for 'Price Change From Intraday Open'
SettleBarRows ==
  {[Symbol |-> sym, DateTime |-> b[1] * MinutesPerDay + 510 + b[2],
    Open_Minutes_Offset |-> b[2], Price_Change |-> c] :
     sym \in SettleSymbols, b \in {<<BaseDay, 59>>, <<BaseDay + 1, 58>>}, c \in {1, 2}}

\* an intraday file lists the bars of one symbol after those of the other,
\* each symbol's bars in time order, one bar per symbol and minute
BarOrder(r) == (IF r.Symbol = "LEG15" THEN 0 ELSE 1) * 2 * MinutesPerDay
                 + (r.DateTime - BaseDay * MinutesPerDay)

SettleBarTables(n) ==
  {t \in Tables(SettleBarRows, n) :
     \A i \in 1..(Len(t) - 1) : BarOrder(t[i]) < BarOrder(t[i + 1])}

\* names offered for the files of the settlement_analytics directory
\* the true-open file offered: at most one bar, its price change 2
TrueOpenTables ==
  {t \in SettleBarTables(1) : \A i \in DOMAIN t : t[i].Price_Change = 2}

SettlementFiles ==
  {"true", "true_open_1_day_lookback.csv", "sliding_open_1_day_lookback.csv"}

get_change_from_settlement_information(csv_as_df, filename) ==
  LET populated_price_only_df ==
        SelectSeq(csv_as_df, LAMBDA r : r.Price_Difference # NaN)
  IN [df |-> populated_price_only_df, filename |-> filename]

get_settlement_price_change_for_date(a_date, a_settlement_df) ==
  LET rows_with_date == SelectSeq(a_settlement_df, LAMBDA r : Date(r.Date) = a_date)
  IN IF rows_with_date = <<>> THEN None
     ELSE rows_with_date[1].Price_Difference

\* variant that takes the first bar of the date, whatever its offset
get_intraday_price_change_at_first_bar(a_date, intraday_df) ==
  LET rows_with_date == SelectSeq(intraday_df, LAMBDA r : Date(r.DateTime) = a_date)
  IN IF rows_with_date = <<>> THEN None
     ELSE rows_with_date[1].Price_Change

\* variant without the guards: iloc[0] of an empty table raises
get_intraday_price_change_unguarded(a_date, intraday_df) ==
  LET rows_with_date == SelectSeq(intraday_df, LAMBDA r : Date(r.DateTime) = a_date)
      t_sixty_row == SelectSeq(rows_with_date, LAMBDA r : r.Open_Minutes_Offset = 59)
  IN IF t_sixty_row = <<>> THEN IndexError
     ELSE t_sixty_row[1].Price_Change

get_intraday_price_change_at_minute_sixty(a_date, intraday_df) ==
  LET rows_with_date == SelectSeq(intraday_df, LAMBDA r : Date(r.DateTime) = a_date)
      t_sixty_row == SelectSeq(rows_with_date, LAMBDA r : r.Open_Minutes_Offset = 59)
  IN IF rows_with_date = <<>> THEN None
     ELSE IF t_sixty_row = <<>> THEN None
     ELSE t_sixty_row[1].Price_Change

\* the intraday table the loop uses for a dataset
intraday_df_of(filename) == IF filename = "true" THEN true_open_df ELSE sliding_open_df

\* the state after the cells that load and filter the three inputs
InitSettle ==
  /\ settle_pc = "symbols"
  /\ settlement_change_datasets \in
       {<<get_change_from_settlement_information(t, f)>> :
          t \in SettleTables, f \in SettlementFiles}
       \cup {<<get_change_from_settlement_information(t, "true"),
               get_change_from_settlement_information(t, "sliding_open_1_day_lookback.csv")>> :
               t \in SettleTables}
  /\ sliding_open_df \in SettleBarTables(MaxIntradayBars)
  /\ true_open_df \in TrueOpenTables
  /\ settle_unique_symbols = <<>>
  /\ a_settlement_change_dataset_index = 0
  /\ a_symbol_index = 0
  /\ unique_dates = <<>>
  /\ date_index = 0
  /\ corellation_matrix = <<>>
  /\ IdleDTE /\ IdleDate /\ IdleCOT /\ IdleOpen /\ IdleHeader /\ IdleRename /\ IdleSliding /\ IdleLoad /\ IdleApply /\ IdleCells

\* unique_symbols = sliding_open_df['Symbol'].drop_duplicates().to_list()
SettleUniqueSymbols ==
  /\ settle_pc = "symbols"
  /\ settle_unique_symbols' =
       unique([i \in DOMAIN sliding_open_df |-> sliding_open_df[i].Symbol])
  /\ settle_pc' = "matrix_init"
  /\ UNCHANGED <<settlement_change_datasets, sliding_open_df, true_open_df,
                 a_settlement_change_dataset_index, a_symbol_index, unique_dates,
                 date_index, corellation_matrix>>
  /\ UNCHANGED <<varsDTE, varsDate, varsCOT, varsOpen, varsHeader, varsRename, varsSliding, varsLoad, varsApply, varsCells>>

\* the first statement of the cell of the loops: corellation_matrix = {};
\* the loop over the datasets follows
SettleInitMatrix ==
  /\ settle_pc = "matrix_init"
  /\ corellation_matrix' = <<>>
  /\ a_settlement_change_dataset_index' = 1
  /\ settle_pc' = "dataset"
  /\ UNCHANGED <<settlement_change_datasets, sliding_open_df, true_open_df,
                 settle_unique_symbols, a_symbol_index, unique_dates, date_index>>
  /\ UNCHANGED <<varsDTE, varsDate, varsCOT, varsOpen, varsHeader, varsRename, varsSliding, varsLoad, varsApply, varsCells>>

\* head of the dataset loop: corellation_matrix[filename] = []
SettleNextDataset ==
  /\ settle_pc = "dataset"
  /\ IF a_settlement_change_dataset_index <= Len(settlement_change_datasets)
     THEN LET a_settlement_change_dataset ==
                settlement_change_datasets[a_settlement_change_dataset_index]
          IN /\ corellation_matrix' =
                  [f \in DOMAIN corellation_matrix \cup {a_settlement_change_dataset.filename} |->
                     IF f = a_settlement_change_dataset.filename THEN <<>>
                     ELSE corellation_matrix[f]]
             /\ a_symbol_index' = 1
             /\ settle_pc' = "symbol"
     ELSE /\ settle_pc' = "done"
          /\ UNCHANGED <<corellation_matrix, a_symbol_index>>
  /\ UNCHANGED <<settlement_change_datasets, sliding_open_df, true_open_df,
                 settle_unique_symbols, a_settlement_change_dataset_index,
                 unique_dates, date_index>>
  /\ UNCHANGED <<varsDTE, varsDate, varsCOT, varsOpen, varsHeader, varsRename, varsSliding, varsLoad, varsApply, varsCells>>

\* a_settlement_change_dataset_for_symbol of the loop in progress
dataset_for_symbol ==
  SelectSeq(settlement_change_datasets[a_settlement_change_dataset_index].df,
            LAMBDA r : r.Symbol = settle_unique_symbols[a_symbol_index])

\* intraday_df_for_symbol of the loop in progress
intraday_df_for_symbol ==
  SelectSeq(intraday_df_of(settlement_change_datasets[a_settlement_change_dataset_index].filename),
            LAMBDA r : r.Symbol = settle_unique_symbols[a_symbol_index])

\* head of the symbol loop: unique_dates of the symbol's settlement rows
SettleNextSymbol ==
  /\ settle_pc = "symbol"
  /\ IF a_symbol_index <= Len(settle_unique_symbols)
     THEN /\ unique_dates' =
               unique([i \in DOMAIN dataset_for_symbol |-> Date(dataset_for_symbol[i].Date)])
          /\ date_index' = 1
          /\ settle_pc' = "date"
          /\ UNCHANGED a_settlement_change_dataset_index
     ELSE /\ a_settlement_change_dataset_index' = a_settlement_change_dataset_index + 1
          /\ settle_pc' = "dataset"
          /\ UNCHANGED <<unique_dates, date_index>>
  /\ UNCHANGED <<settlement_change_datasets, sliding_open_df, true_open_df,
                 settle_unique_symbols, a_symbol_index, corellation_matrix>>
  /\ UNCHANGED <<varsDTE, varsDate, varsCOT, varsOpen, varsHeader, varsRename, varsSliding, varsLoad, varsApply, varsCells>>

\* one pass of the for a_date loop: both lookups, then skip or append; an
\* exception raised by a lookup is caught nowhere and ends the run
SettleDateStep ==
  /\ settle_pc = "date"
  /\ IF date_index <= Len(unique_dates)
     THEN LET a_date == unique_dates[date_index]
              filename == settlement_change_datasets[a_settlement_change_dataset_index].filename
              settlement_price_diff ==
                get_settlement_price_change_for_date(a_date, dataset_for_symbol)
              intraday_cfo ==
                get_intraday_price_change_at_minute_sixty(a_date, intraday_df_for_symbol)
          IN IF settlement_price_diff = IndexError \/ intraday_cfo = IndexError
             THEN /\ settle_pc' = "error"
                  /\ UNCHANGED <<corellation_matrix, date_index, a_symbol_index>>
             ELSE /\ corellation_matrix' =
                       IF settlement_price_diff = None \/ intraday_cfo = None
                       THEN corellation_matrix
                       ELSE [corellation_matrix EXCEPT ![filename] =
                               Append(@, [Symbol |-> settle_unique_symbols[a_symbol_index],
                                          Date |-> a_date,
                                          Price_Difference |-> settlement_price_diff,
                                          CFO_At_Open_t60 |-> intraday_cfo])]
                  /\ date_index' = date_index + 1
                  /\ UNCHANGED <<settle_pc, a_symbol_index>>
     ELSE /\ a_symbol_index' = a_symbol_index + 1
          /\ settle_pc' = "symbol"
          /\ UNCHANGED <<corellation_matrix, date_index>>
  /\ UNCHANGED <<settlement_change_datasets, sliding_open_df, true_open_df,
                 settle_unique_symbols, a_settlement_change_dataset_index, unique_dates>>
  /\ UNCHANGED <<varsDTE, varsDate, varsCOT, varsOpen, varsHeader, varsRename, varsSliding, varsLoad, varsApply, varsCells>>

NextSettle ==
  \/ SettleUniqueSymbols
  \/ SettleInitMatrix
  \/ SettleNextDataset
  \/ SettleNextSymbol
  \/ SettleDateStep

SpecSettle == InitSettle /\ [][NextSettle]_vars

\* the loaded dataset of a file name
dataset_of(filename) ==
  LET i == CHOOSE k \in DOMAIN settlement_change_datasets :
             settlement_change_datasets[k].filename = filename
  IN settlement_change_datasets[i].df

\* the settlement rows of a symbol and date in the dataset of a file
SettlementRowsOf(filename, symbol, a_date) ==
  SelectSeq(dataset_of(filename),
            LAMBDA r : r.Symbol = symbol /\ Date(r.Date) = a_date)

\* the bars of a symbol and date at offset 59 in the dataset's intraday table
MinuteSixtyBarsOf(filename, symbol, a_date) ==
  SelectSeq(intraday_df_of(filename),
            LAMBDA r : /\ r.Symbol = symbol
                       /\ Date(r.DateTime) = a_date
                       /\ r.Open_Minutes_Offset = 59)

\* C5: every record of the correlation loop pairs the open-versus-settlement
\* difference of its symbol and date with the price change of that symbol's
\* bar at offset 59 on that date; a symbol and date with either value
\* missing has no record; a dataset holds at most one record per symbol and date
C5_LoopPairsSettlementWithMinuteSixty ==
  \A filename \in DOMAIN corellation_matrix :
    LET records == corellation_matrix[filename]
    IN \A i \in DOMAIN records :
         LET settlement_rows ==
               SettlementRowsOf(filename, records[i].Symbol, records[i].Date)
             bars == MinuteSixtyBarsOf(filename, records[i].Symbol, records[i].Date)
         IN /\ settlement_rows # <<>>
            /\ bars # <<>>
            /\ records[i].Price_Difference = settlement_rows[1].Price_Difference
            /\ records[i].Price_Difference # NaN
            /\ records[i].CFO_At_Open_t60 = bars[1].Price_Change
            /\ \A j \in DOMAIN records :
                 (records[j].Symbol = records[i].Symbol
                    /\ records[j].Date = records[i].Date) => i = j

\* the loop has finished with a record in a dataset that also holds a
\* settlement row of a listed symbol without a bar at offset 59
C5_Witness ==
  /\ settle_pc = "done"
  /\ \E filename \in DOMAIN corellation_matrix :
       /\ corellation_matrix[filename] # <<>>
       /\ \E i \in DOMAIN dataset_of(filename) :
            LET r == dataset_of(filename)[i]
            IN /\ r.Symbol \in Range(settle_unique_symbols)
               /\ MinuteSixtyBarsOf(filename, r.Symbol, Date(r.Date)) = <<>>
               /\ \A k \in DOMAIN corellation_matrix[filename] :
                    ~(corellation_matrix[filename][k].Symbol = r.Symbol
                        /\ corellation_matrix[filename][k].Date = Date(r.Date))

\* the loop is about to look up a date for which the symbol has no bar at
\* offset 59 in the intraday table
EmptyLookupNow ==
  /\ settle_pc = "date"
  /\ date_index <= Len(unique_dates)
  /\ MinuteSixtyBarsOf(settlement_change_datasets[a_settlement_change_dataset_index].filename,
                       settle_unique_symbols[a_symbol_index],
                       unique_dates[date_index]) = <<>>

\* C10 as stated: whenever a lookup is empty, execution stops with an
\* uncaught error instead of continuing with the remaining data
C10_EmptyLookupStopsExecution ==
  [][EmptyLookupNow => settle_pc' = "error"]_vars

\* C10: an empty lookup in the correlation loop raises nothing: the date is
\* skipped without a record and the loop goes on to the next date
C10_EmptyLookupIsSkipped ==
  [][EmptyLookupNow =>
       /\ settle_pc' = "date"
       /\ date_index' = date_index + 1
       /\ corellation_matrix' = corellation_matrix]_vars

\* the loop has passed a date whose lookup was empty and stands at a later
\* date of the same symbol that has a bar at offset 59
C10_Witness ==
  /\ settle_pc = "date"
  /\ date_index > 1
  /\ date_index <= Len(unique_dates)
  /\ LET filename == settlement_change_datasets[a_settlement_change_dataset_index].filename
         symbol == settle_unique_symbols[a_symbol_index]
     IN /\ MinuteSixtyBarsOf(filename, symbol, unique_dates[date_index - 1]) = <<>>
        /\ MinuteSixtyBarsOf(filename, symbol, unique_dates[date_index]) # <<>>
        /\ \A k \in DOMAIN corellation_matrix[filename] :
             corellation_matrix[filename][k].Symbol # symbol

(***************************************************************************)
(* src/data/scripts/add_header.sh                                          *)
(***************************************************************************)
\* A file name is a sequence of words, written with one space between them;
\* a word is a stem and an extension ("" for none): "a.csv", "a b.csv", "a".
\* A path is a directory and a file name; "./sub" is a directory below the
\* working directory ".".
Word(stem, ext) == [stem |-> stem, ext |-> ext]

HeaderNames ==
  { <<Word("a", "csv")>>, <<Word("b", "csv")>>,
    <<Word("a", ""), Word("b", "csv")>>, <<Word("a", "")>> }

HeaderPaths == [dir : {".", "./sub"}, name : HeaderNames]

\* lines of a data file; none of them is the header
HeaderLines == {"x", "y"}

HeaderContents == Tables(HeaderLines, MaxLines)

\* the directory trees offered to the script
HeaderTrees ==
  UNION { [P -> HeaderContents] :
            P \in {Q \in SUBSET HeaderPaths : Cardinality(Q) <= MaxFiles} }

CSV_HEADER == "DateTime,Open,High,Low,Close,Volume"

\* -name "*.csv": the base name ends in .csv
name_matches_csv(name) == name[Len(name)].ext = "csv"

\* find . -name "*.csv": the matching paths of the whole tree below ".", in
\* the order the directories list them
find_csv(fs) ==
  LET found == {p \in DOMAIN fs : name_matches_csv(p.name)}
  IN {f \in [1..Cardinality(found) -> found] :
        \A i, j \in 1..Cardinality(found) : f[i] = f[j] => i = j}

\* the words zsh makes of one line of find's output: $(...) is split at
\* white space, so the first word carries the directory and any further word
\* of the name stands alone, relative to the working directory
words_of_path(p) ==
  [k \in 1..Len(p.name) |->
     [dir |-> IF k = 1 THEN p.dir ELSE ".", name |-> <<p.name[k]>>]]

RECURSIVE words_of_paths(_)
words_of_paths(paths) ==
  IF paths = <<>> THEN <<>>
  ELSE words_of_path(Head(paths)) \o words_of_paths(Tail(paths))

\* gsed -i '1s/^/DateTime,Open,High,Low,Close,Volume\n/': the substitution
\* is made on line 1; a file without lines has no line 1
gsed_1s_header(lines) ==
  IF lines = <<>> THEN lines ELSE <<CSV_HEADER>> \o lines

InitHeader ==
  /\ hdr_pc = "find"
  /\ hdr_fs \in HeaderTrees
  /\ hdr_fs_at_start = hdr_fs
  /\ hdr_words = <<>>
  /\ hdr_stdout = <<>>
  /\ IdleDTE /\ IdleDate /\ IdleCOT /\ IdleOpen /\ IdleSettle /\ IdleRename /\ IdleSliding /\ IdleLoad /\ IdleApply /\ IdleCells

\* $(find . -name "*.csv"), evaluated once before the loop
HeaderFind ==
  /\ hdr_pc = "find"
  /\ \E found \in find_csv(hdr_fs) : hdr_words' = words_of_paths(found)
  /\ hdr_pc' = "loop"
  /\ UNCHANGED <<hdr_fs, hdr_fs_at_start, hdr_stdout>>
  /\ UNCHANGED <<varsDTE, varsDate, varsCOT, varsOpen, varsSettle, varsRename, varsSliding, varsLoad, varsApply, varsCells>>

\* one pass of the loop: echo Processing $file; gsed -i ... $file.  gsed
\* fails on a path that is no file and the loop goes on.
HeaderProcess ==
  /\ hdr_pc = "loop"
  /\ hdr_words # <<>>
  /\ LET file == Head(hdr_words)
     IN /\ hdr_stdout' = Append(hdr_stdout, file)
        /\ hdr_fs' = IF file \in DOMAIN hdr_fs
                     THEN [hdr_fs EXCEPT ![file] = gsed_1s_header(@)]
                     ELSE hdr_fs
  /\ hdr_words' = Tail(hdr_words)
  /\ UNCHANGED <<hdr_pc, hdr_fs_at_start>>
  /\ UNCHANGED <<varsDTE, varsDate, varsCOT, varsOpen, varsSettle, varsRename, varsSliding, varsLoad, varsApply, varsCells>>

HeaderDone ==
  /\ hdr_pc = "loop"
  /\ hdr_words = <<>>
  /\ hdr_pc' = "done"
  /\ UNCHANGED <<hdr_fs, hdr_fs_at_start, hdr_words, hdr_stdout>>
  /\ UNCHANGED <<varsDTE, varsDate, varsCOT, varsOpen, varsSettle, varsRename, varsSliding, varsLoad, varsApply, varsCells>>

NextHeader ==
  \/ HeaderFind
  \/ HeaderProcess
  \/ HeaderDone

SpecHeader == InitHeader /\ [][NextHeader]_vars

\* the paths the loop has handed to gsed that are files
HeaderProcessed == {p \in DOMAIN hdr_fs : Count(p, hdr_stdout) > 0}

\* C11: after add_header.sh has run, every .csv file it processed, of any
\* length, starts with the header line, followed by its original lines
C11_HeaderThenOriginalLines ==
  hdr_pc = "done" =>
    \A p \in HeaderProcessed :
      name_matches_csv(p.name) =>
        hdr_fs[p] = <<CSV_HEADER>> \o hdr_fs_at_start[p]

\* C12: add_header.sh processes each .csv file directly in the working
\* directory exactly once, whatever its name, and modifies no file in a
\* subdirectory and no file that is not a .csv file
C12_OnlyCsvOfWorkingDirectory ==
  hdr_pc = "done" =>
    \A p \in DOMAIN hdr_fs :
      IF p.dir = "." /\ name_matches_csv(p.name)
      THEN \E i \in DOMAIN hdr_stdout :
             /\ hdr_stdout[i] = p
             /\ \A j \in DOMAIN hdr_stdout : hdr_stdout[j] = p => j = i
      ELSE hdr_fs[p] = hdr_fs_at_start[p]

(***************************************************************************)
(* The rename script (.txt to .csv)                                        *)
(***************************************************************************)
\* A file name of the working directory: a stem and an extension, with a
\* leading dot when hidden: "a.txt", ".a.txt", "b.csv".
RenameNames == [hidden : BOOLEAN, stem : {"a", "b"}, ext : {"txt", "csv"}]

RenameContents == 1..2

\* the directories offered to the script
RenameDirs ==
  UNION { [P -> RenameContents] :
            P \in {Q \in SUBSET RenameNames : Cardinality(Q) <= MaxFiles} }

\* the place of a name in the sorted expansion of a pattern
name_rank(n) == IF n.stem = "a" THEN 1 ELSE 2

\* *.txt: the names ending in .txt, sorted; zsh's * matches no leading dot
glob_txt(dir) ==
  LET matches == {n \in DOMAIN dir : n.ext = "txt" /\ ~n.hidden}
  IN CHOOSE f \in [1..Cardinality(matches) -> matches] :
       \A i, j \in 1..Cardinality(matches) :
         i < j => name_rank(f[i]) < name_rank(f[j])

\* "${file%.txt}.csv"
strip_txt_add_csv(file) == [file EXCEPT !.ext = "csv"]

\* mv source target: the target name now holds the source's content, and a
\* file that had the target name is gone
mv(dir, source, target) ==
  [n \in (DOMAIN dir \ {source}) \cup {target} |->
     IF n = target THEN dir[source] ELSE dir[n]]

InitRename ==
  /\ ren_pc = "glob"
  /\ ren_dir \in RenameDirs
  /\ ren_dir_at_start = ren_dir
  /\ ren_files = <<>>
  /\ IdleDTE /\ IdleDate /\ IdleCOT /\ IdleOpen /\ IdleSettle /\ IdleHeader /\ IdleSliding /\ IdleLoad /\ IdleApply /\ IdleCells

\* for file in *.txt: the pattern is expanded once; zsh stops with "no
\* matches found" when nothing matches
RenameGlob ==
  /\ ren_pc = "glob"
  /\ ren_files' = glob_txt(ren_dir)
  /\ ren_pc' = IF glob_txt(ren_dir) = <<>> THEN "error" ELSE "loop"
  /\ UNCHANGED <<ren_dir, ren_dir_at_start>>
  /\ UNCHANGED <<varsDTE, varsDate, varsCOT, varsOpen, varsSettle, varsHeader, varsSliding, varsLoad, varsApply, varsCells>>

\* one pass of the loop: mv "$file" "${file%.txt}.csv"
RenameMove ==
  /\ ren_pc = "loop"
  /\ ren_files # <<>>
  /\ ren_dir' = mv(ren_dir, Head(ren_files), strip_txt_add_csv(Head(ren_files)))
  /\ ren_files' = Tail(ren_files)
  /\ UNCHANGED <<ren_pc, ren_dir_at_start>>
  /\ UNCHANGED <<varsDTE, varsDate, varsCOT, varsOpen, varsSettle, varsHeader, varsSliding, varsLoad, varsApply, varsCells>>

RenameDone ==
  /\ ren_pc = "loop"
  /\ ren_files = <<>>
  /\ ren_pc' = "done"
  /\ UNCHANGED <<ren_dir, ren_dir_at_start, ren_files>>
  /\ UNCHANGED <<varsDTE, varsDate, varsCOT, varsOpen, varsSettle, varsHeader, varsSliding, varsLoad, varsApply, varsCells>>

NextRename ==
  \/ RenameGlob
  \/ RenameMove
  \/ RenameDone

SpecRename == InitRename /\ [][NextRename]_vars

\* C13: after the rename script has run, every file that was named X.txt is
\* named X.csv with its content, no name ending in .txt remains, and every
\* file that did not end in .txt keeps its name: it is still there under
\* that name, with its content
C13_TxtBecomesCsv ==
  ren_pc \in {"done", "error"} =>
    /\ \A n \in DOMAIN ren_dir_at_start :
         IF n.ext = "txt"
         THEN /\ strip_txt_add_csv(n) \in DOMAIN ren_dir
              /\ ren_dir[strip_txt_add_csv(n)] = ren_dir_at_start[n]
         ELSE /\ n \in DOMAIN ren_dir
              /\ ren_dir[n] = ren_dir_at_start[n]
    /\ \A n \in DOMAIN ren_dir : n.ext # "txt"

(***************************************************************************)
(* commodities_split_by_cot_short_interest.ipynb: the sliding-open bars,   *)
(* from the preceding-Tuesday column to the averages per minute            *)
(***************************************************************************)
\* the Tuesdays of three consecutive weeks
SlidingReportDays == {d \in BaseDay..(BaseDay + 20) : weekday(d) = 1}

SlidingReportRows ==
  [Date : {d * MinutesPerDay : d \in SlidingReportDays}, Shorts : 0..MaxShorts]

\* report files list at most one report per Tuesday, in order of date; a
\* week's report may be missing
SlidingReportTables ==
  {t \in Tables(SlidingReportRows, 3) :
     /\ t # <<>>
     /\ \A i \in 1..(Len(t) - 1) : t[i].Date < t[i + 1].Date}

\* bars offered as the sliding-open file: on the Monday after the first
\* report, the Wednesday of the week after the second and the second Sunday
\* after the third, at the open and one minute later
SlidingBarRows ==
  {[DateTime |-> (SetMin(SlidingReportDays) + k) * MinutesPerDay + 510 + o,
    Open_Minutes_Offset |-> o,
    Price_Change |-> c] : k \in {6, 15, 26}, o \in {0, 1}, c \in {1, 2}}

\* Series.isin(values)
isin(value, values) == value \in Range(values)

\* variant that looks up the date of the bar instead of its 'Date Of
\* Preceding Tuesday'
split_intraday_activity_by_bar_date(cot_pmpu_shorts_above_median_df, cot_pmpu_shorts_below_median_df, intraday_open_df) ==
  LET dates_pmpu_shorts_above_median ==
        unique([i \in DOMAIN cot_pmpu_shorts_above_median_df |->
                  Date(cot_pmpu_shorts_above_median_df[i].Date)])
      dates_pmpu_shorts_below_median ==
        unique([i \in DOMAIN cot_pmpu_shorts_below_median_df |->
                  Date(cot_pmpu_shorts_below_median_df[i].Date)])
  IN [above_median |->
        SelectSeq(intraday_open_df,
                  LAMBDA r : isin(Date(r.DateTime), dates_pmpu_shorts_above_median)),
      below_median |->
        SelectSeq(intraday_open_df,
                  LAMBDA r : isin(Date(r.DateTime), dates_pmpu_shorts_below_median))]

split_intraday_activity_by_cot_median(cot_pmpu_shorts_above_median_df, cot_pmpu_shorts_below_median_df, intraday_open_df) ==
  LET dates_pmpu_shorts_above_median ==
        unique([i \in DOMAIN cot_pmpu_shorts_above_median_df |->
                  Date(cot_pmpu_shorts_above_median_df[i].Date)])
      dates_pmpu_shorts_below_median ==
        unique([i \in DOMAIN cot_pmpu_shorts_below_median_df |->
                  Date(cot_pmpu_shorts_below_median_df[i].Date)])
  IN [above_median |->
        SelectSeq(intraday_open_df,
                  LAMBDA r : isin(r.Date_Of_Preceding_Tuesday, dates_pmpu_shorts_above_median)),
      below_median |->
        SelectSeq(intraday_open_df,
                  LAMBDA r : isin(r.Date_Of_Preceding_Tuesday, dates_pmpu_shorts_below_median))]

\* the mean of a column that has no value
NaNMean == [num |-> 0, den |-> 0]

\* df.groupby('Open Minutes Offset', as_index=False)['Price Change From
\* Intraday Open'].mean(): one row per offset, in ascending order of offset,
\* numbered from the first; the mean is kept exact as sum and count
groupby_offset_mean(df) ==
  LET keys == ascending({df[i].Open_Minutes_Offset : i \in DOMAIN df})
  IN [g \in DOMAIN keys |->
        LET rows == SelectSeq(df, LAMBDA r : r.Open_Minutes_Offset = keys[g])
        IN [Open_Minutes_Offset |-> keys[g],
            Price_Change |->
              [num |-> SumTo([i \in DOMAIN rows |-> rows[i].Price_Change], 1, Len(rows)),
               den |-> Len(rows)]]]

\* pd.DataFrame({...}) of three columns taken from the two grouped tables:
\* the columns are aligned on their row numbers, and a column that has no
\* value at a row number is NaN there
calculate_average_intraday_price_change_grouped_by_open_minutes_offset(intraday_minute_bars_df) ==
  LET intraday_above_median_pmpu_shorts_df ==
        groupby_offset_mean(intraday_minute_bars_df.above_median)
      intraday_below_median_pmpu_shorts_df ==
        groupby_offset_mean(intraday_minute_bars_df.below_median)
      n == IF Len(intraday_above_median_pmpu_shorts_df) >= Len(intraday_below_median_pmpu_shorts_df)
           THEN Len(intraday_above_median_pmpu_shorts_df)
           ELSE Len(intraday_below_median_pmpu_shorts_df)
  IN [i \in 1..n |->
        [Open_Minutes_Offset |->
           IF i <= Len(intraday_above_median_pmpu_shorts_df)
           THEN intraday_above_median_pmpu_shorts_df[i].Open_Minutes_Offset ELSE NaN,
         Avg_Above_Median |->
           IF i <= Len(intraday_above_median_pmpu_shorts_df)
           THEN intraday_above_median_pmpu_shorts_df[i].Price_Change ELSE NaNMean,
         Avg_Below_Median |->
           IF i <= Len(intraday_below_median_pmpu_shorts_df)
           THEN intraday_below_median_pmpu_shorts_df[i].Price_Change ELSE NaNMean]]

\* the state after the cells that load the files, compute the median and
\* split the reports around it
InitSliding ==
  /\ slide_pc = "tuesday"
  /\ intraday_sliding_open_df \in Tables(SlidingBarRows, MaxSlidingBars)
  /\ intraday_minute_bars_sliding_open_split = [above_median |-> <<>>, below_median |-> <<>>]
  /\ sliding_open_intraday_average_changes = <<>>
  /\ cot_pc = "done"
  /\ cot_df \in SlidingReportTables
  /\ median_pmpu_shorts_percentage = median([i \in DOMAIN cot_df |-> cot_df[i].Shorts])
  /\ pmpu_shorts_split_by_median =
       filter_and_split_cot_shorts_around_median(cot_df, median_pmpu_shorts_percentage)
  /\ intraday_true_open_df = <<>>
  /\ IdleDTE /\ IdleDate /\ IdleOpen /\ IdleSettle /\ IdleHeader /\ IdleRename /\ IdleLoad /\ IdleApply /\ IdleCells

\* intraday_sliding_open_df['Date Of Preceding Tuesday'] =
\*   intraday_sliding_open_df['DateTime'].apply(date_of_preceding_tuesday)
SlidingPrecedingTuesday ==
  /\ slide_pc = "tuesday"
  /\ intraday_sliding_open_df' =
       with_column(intraday_sliding_open_df, "Date_Of_Preceding_Tuesday",
         [i \in DOMAIN intraday_sliding_open_df |->
            date_of_preceding_tuesday(intraday_sliding_open_df[i].DateTime)])
  /\ slide_pc' = "split"
  /\ UNCHANGED <<intraday_minute_bars_sliding_open_split, sliding_open_intraday_average_changes>>
  /\ UNCHANGED <<varsDTE, varsDate, varsCOT, varsOpen, varsSettle, varsHeader, varsRename, varsLoad, varsApply, varsCells>>

\* intraday_minute_bars_sliding_open_split = split_intraday_activity_by_cot_median(...)
SlidingSplit ==
  /\ slide_pc = "split"
  /\ intraday_minute_bars_sliding_open_split' =
       split_intraday_activity_by_cot_median(pmpu_shorts_split_by_median.above_median_df,
                                             pmpu_shorts_split_by_median.below_median_df,
                                             intraday_sliding_open_df)
  /\ slide_pc' = "averages"
  /\ UNCHANGED <<intraday_sliding_open_df, sliding_open_intraday_average_changes>>
  /\ UNCHANGED <<varsDTE, varsDate, varsCOT, varsOpen, varsSettle, varsHeader, varsRename, varsLoad, varsApply, varsCells>>

\* sliding_open_intraday_average_changes =
\*   calculate_average_intraday_price_change_grouped_by_open_minutes_offset(...)
SlidingAverages ==
  /\ slide_pc = "averages"
  /\ sliding_open_intraday_average_changes' =
       calculate_average_intraday_price_change_grouped_by_open_minutes_offset(
         intraday_minute_bars_sliding_open_split)
  /\ slide_pc' = "done"
  /\ UNCHANGED <<intraday_sliding_open_df, intraday_minute_bars_sliding_open_split>>
  /\ UNCHANGED <<varsDTE, varsDate, varsCOT, varsOpen, varsSettle, varsHeader, varsRename, varsLoad, varsApply, varsCells>>

NextSliding ==
  \/ SlidingPrecedingTuesday
  \/ SlidingSplit
  \/ SlidingAverages

SpecSliding == InitSliding /\ [][NextSliding]_vars

\* value is the mean 'Price Change From Intraday Open' of the bars of side
\* at the given offset (NaN when the side has no bar there)
IsMeanAtOffset(value, side, offset) ==
  LET rows == SelectSeq(side, LAMBDA r : r.Open_Minutes_Offset = offset)
  IN IF rows = <<>> THEN value = NaNMean
     ELSE /\ value.den > 0
          /\ value.num * Len(rows) =
               SumTo([i \in DOMAIN rows |-> rows[i].Price_Change], 1, Len(rows)) * value.den

\* C14: in every row of the table of averages, each average column is the
\* mean price change of the bars of its own side at the row's 'Open Minutes
\* Offset', also when the two sides do not have the same offsets
C14_AveragesBelongToRowOffset ==
  slide_pc = "done" =>
    \A i \in DOMAIN sliding_open_intraday_average_changes :
      LET row == sliding_open_intraday_average_changes[i]
      IN /\ IsMeanAtOffset(row.Avg_Above_Median,
                           intraday_minute_bars_sliding_open_split.above_median,
                           row.Open_Minutes_Offset)
         /\ IsMeanAtOffset(row.Avg_Below_Median,
                           intraday_minute_bars_sliding_open_split.below_median,
                           row.Open_Minutes_Offset)

\* the calendar dates of the reports of cot_df
ReportDates == {Date(cot_df[i].Date) : i \in DOMAIN cot_df}

\* the date of the bar lies between the first report date + 6 days and the
\* last report date + 12 days
BarInReportRange(bar) ==
  /\ Date(bar.DateTime) >= SetMin(ReportDates) + 6
  /\ Date(bar.DateTime) <= SetMax(ReportDates) + 12

\* every copy of the bar is in one of the two outputs, and no copy in the
\* other
InExactlyOneOutput(bar) ==
  LET above == Count(bar, intraday_minute_bars_sliding_open_split.above_median)
      below == Count(bar, intraday_minute_bars_sliding_open_split.below_median)
  IN /\ above + below = Count(bar, intraday_sliding_open_df)
     /\ above = 0 \/ below = 0

\* C20 as stated: for every report table and every table of bars, each bar
\* whose date lies between the first report date + 6 days and the last
\* report date + 12 days is in exactly one of above_median and below_median.
C20_BarInRangeInExactlyOneOutput ==
  slide_pc \in {"averages", "done"} =>
    \A i \in DOMAIN intraday_sliding_open_df :
      BarInReportRange(intraday_sliding_open_df[i]) =>
        InExactlyOneOutput(intraday_sliding_open_df[i])

\* the report table lists one report for every Tuesday from its first to its
\* last date, and no other date
OneReportPerTuesday ==
  /\ Cardinality(ReportDates) = Len(cot_df)
  /\ \A d \in ReportDates : weekday(d) = 1
  /\ \A d \in SetMin(ReportDates)..SetMax(ReportDates) : weekday(d) = 1 => d \in ReportDates

\* C20 (amended): when the report table lists exactly one report for every
\* Tuesday from its first to its last date and no other date, each bar whose
\* date lies between the first report date + 6 days and the last report date
\* + 12 days is in exactly one of above_median and below_median.
C20_BarInRangeOfWeeklyReportsInExactlyOneOutput ==
  (slide_pc \in {"averages", "done"} /\ OneReportPerTuesday) =>
    \A i \in DOMAIN intraday_sliding_open_df :
      BarInReportRange(intraday_sliding_open_df[i]) =>
        InExactlyOneOutput(intraday_sliding_open_df[i])

\* reports of consecutive Tuesdays on both sides of the median, and a bar in
\* range in each of the two outputs
C20_Witness ==
  /\ slide_pc = "averages"
  /\ OneReportPerTuesday
  /\ Len(cot_df) >= 2
  /\ \E i \in DOMAIN intraday_minute_bars_sliding_open_split.above_median :
       BarInReportRange(intraday_minute_bars_sliding_open_split.above_median[i])
  /\ \E i \in DOMAIN intraday_minute_bars_sliding_open_split.below_median :
       BarInReportRange(intraday_minute_bars_sliding_open_split.below_median[i])

\* the open type a settlement file was computed from, as its name tells
OpenTypeOf(filename) ==
  IF filename \in {"true", "true_open_1_day_lookback.csv"} THEN "true" ELSE "sliding"

\* the intraday table of a dataset's own open type
OwnIntradayOf(filename) ==
  IF OpenTypeOf(filename) = "true" THEN true_open_df ELSE sliding_open_df

\* C15: the correlation loop matches each settlement dataset against the
\* intraday bars of its own open type: every record of a dataset computed
\* from true-open prices carries the price change of the offset-59 bar of
\* true_open_df, every record of another dataset that of sliding_open_df
C15_DatasetMatchedWithOwnOpenType ==
  \A filename \in DOMAIN corellation_matrix :
    \A i \in DOMAIN corellation_matrix[filename] :
      LET record == corellation_matrix[filename][i]
          bars == SelectSeq(OwnIntradayOf(filename),
                            LAMBDA r : /\ r.Symbol = record.Symbol
                                       /\ Date(r.DateTime) = record.Date
                                       /\ r.Open_Minutes_Offset = 59)
      IN /\ bars # <<>>
         /\ record.CFO_At_Open_t60 = bars[1].Price_Change

(***************************************************************************)
(* commodities_split_by_days_to_expiration.ipynb:                          *)
(* get_master_ungrouped_data_frame                                         *)
(***************************************************************************)
\* bars offered in a contract file: at 08:30 and at 13:00 on two
\* consecutive days, all of volume 1
ContractBarRows ==
  [DateTime : {d * MinutesPerDay + m : d \in {BaseDay, BaseDay + 1}, m \in {510, 780}},
   Volume : {1}]

\* a contract file lists its bars in order of time and has at least one
ContractFiles ==
  {t \in Tables(ContractBarRows, MaxContractBars) :
     /\ t # <<>>
     /\ \A i \in 1..(Len(t) - 1) : t[i].DateTime <= t[i + 1].DateTime}

\* the directories offered: one contract file, or two that together have at
\* most one bar more than the largest single file
ContractDirectories ==
  {<<f>> : f \in ContractFiles}
    \cup {d \in ContractFiles \X ContractFiles :
            Len(d[1]) + Len(d[2]) <= MaxContractBars + 1}

\* variant that counts calendar days between the two dates
calculate_dte_by_calendar_day(row, last_unique_trading_minute_in_contract) ==
  Date(last_unique_trading_minute_in_contract) - Date(row.DateTime)

\* timedelta.days of the difference: whole days, rounded down
calculate_dte_for_row(row, last_unique_trading_minute_in_contract) ==
  LET this_row_date == row.DateTime
      time_difference == last_unique_trading_minute_in_contract - this_row_date
  IN time_difference \div MinutesPerDay

add_dte_column_to_df(a_contract_df) ==
  LET days == Range(get_unique_trading_days(a_contract_df))
      last_unique_trading_day_in_contract == SetMax(days)
      rows_of_last_day == loc_date(a_contract_df, last_unique_trading_day_in_contract)
      last_unique_trading_minute_in_contract ==
        rows_of_last_day[Len(rows_of_last_day)].DateTime
  IN [i \in DOMAIN a_contract_df |->
        [DateTime |-> a_contract_df[i].DateTime,
         Volume |-> a_contract_df[i].Volume,
         Days_To_Contract_Expiration |->
           calculate_dte_for_row(a_contract_df[i], last_unique_trading_minute_in_contract)]]

\* variant that stores the column in a copy of the table it was given
add_dte_column_to_copy(a_contract_df) ==
  [a_contract_df |-> a_contract_df, returned |-> add_dte_column_to_df(a_contract_df)]

\* a call of add_dte_column_to_df: the item assignment stores the column in
\* the table the parameter refers to, which is the table of the caller, and
\* that table is returned. a_contract_df is the table of the caller after
\* the call
add_dte_column_to_df_call(a_contract_df) ==
  [a_contract_df |-> add_dte_column_to_df(a_contract_df),
   returned |-> add_dte_column_to_df(a_contract_df)]

\* pd.concat([df1, df2])
combine_data_frames(df1, df2) == df1 \o df2

\* the state before master_ungrouped_df = get_master_ungrouped_data_frame(csv_files)
InitLoad ==
  /\ load_pc = "loop"
  /\ firstratedata_futures \in ContractDirectories
  /\ load_i = 1
  /\ with_dte_df = <<>>
  /\ grouped_df = <<>>
  /\ caller_a_contract_df = <<>>
  /\ dte_pc = "load"
  /\ master_ungrouped_df = <<>>
  /\ DAYS_TO_EXPIRATION_THRESHOLD \in 0..MaxDTE
  /\ less_than_or_equal_dte_threshold_df = <<>>
  /\ greater_than_dte_threshold_df = <<>>
  /\ less_than_or_equal_dte_unique_trading_days = <<>>
  /\ greater_than_dte_unique_trading_days = <<>>
  /\ lte_dte_threshold_frames = <<>>
  /\ gt_dte_threshold_frames = <<>>
  /\ IdleDteNormalized
  /\ IdleDate /\ IdleCOT /\ IdleOpen /\ IdleSettle /\ IdleHeader /\ IdleRename /\ IdleSliding /\ IdleApply /\ IdleCells

\* one pass of the loop of get_master_ungrouped_data_frame
LoadContract ==
  /\ load_pc = "loop"
  /\ load_i <= Len(firstratedata_futures)
  /\ LET a_contract_df == firstratedata_futures[load_i]
         call == add_dte_column_to_df_call(a_contract_df)
     IN /\ caller_a_contract_df' = call.a_contract_df
        /\ with_dte_df' = call.returned
        /\ grouped_df' = combine_data_frames(grouped_df, call.returned)
  /\ load_i' = load_i + 1
  /\ UNCHANGED <<load_pc, firstratedata_futures>>
  /\ UNCHANGED <<varsDTE, varsDate, varsCOT, varsOpen, varsSettle, varsHeader, varsRename, varsSliding, varsApply, varsCells>>

\* return grouped_df; master_ungrouped_df = get_master_ungrouped_data_frame(csv_files)
LoadReturn ==
  /\ load_pc = "loop"
  /\ load_i > Len(firstratedata_futures)
  /\ load_pc' = "done"
  /\ master_ungrouped_df' = grouped_df
  /\ dte_pc' = "sort"
  /\ UNCHANGED <<firstratedata_futures, load_i, with_dte_df, grouped_df, caller_a_contract_df>>
  /\ UNCHANGED <<DAYS_TO_EXPIRATION_THRESHOLD,
                 less_than_or_equal_dte_threshold_df, greater_than_dte_threshold_df,
                 less_than_or_equal_dte_unique_trading_days,
                 greater_than_dte_unique_trading_days,
                 lte_dte_threshold_frames, gt_dte_threshold_frames, varsDteNormalized>>
  /\ UNCHANGED <<varsDate, varsCOT, varsOpen, varsSettle, varsHeader, varsRename, varsSliding, varsApply, varsCells>>

\* the loading of the contracts, followed by the sort cell
NextLoad ==
  \/ LoadContract
  \/ LoadReturn
  \/ DteSortMaster

SpecLoad == InitLoad /\ [][NextLoad]_vars

\* the rows of a contract file with the whole days, rounded down, from each
\* row's timestamp to the file's last bar
RowsWithElapsedDays(file) ==
  [i \in DOMAIN file |->
     [DateTime |-> file[i].DateTime,
      Volume |-> file[i].Volume,
      Days_To_Contract_Expiration |->
        (file[Len(file)].DateTime - file[i].DateTime) \div MinutesPerDay]]

\* how often row r is expected in the combined table
ExpectedCount(r) ==
  SumTo([k \in DOMAIN firstratedata_futures |->
           Count(r, RowsWithElapsedDays(firstratedata_futures[k]))],
        1, Len(firstratedata_futures))

\* C16: every row's 'Days To Contract Expiration' is the number of whole
\* days, rounded down, from the row's timestamp to the last bar of its own
\* contract file; the last bar of each contract has 0; combining and
\* sorting the contracts leaves every row's value as it was
C16_DteIsWholeDaysToLastBar ==
  /\ load_i > 1 =>
       /\ with_dte_df = RowsWithElapsedDays(firstratedata_futures[load_i - 1])
       /\ with_dte_df[Len(with_dte_df)].Days_To_Contract_Expiration = 0
  /\ dte_pc \in {"sort", "split"} =>
       /\ Len(master_ungrouped_df) =
            SumTo([k \in DOMAIN firstratedata_futures |-> Len(firstratedata_futures[k])],
                  1, Len(firstratedata_futures))
       /\ \A r \in Range(master_ungrouped_df) :
            Count(r, master_ungrouped_df) = ExpectedCount(r)

\* two contracts have been combined and sorted; one row is a full day or
\* more before its contract's last bar, another is on an earlier date than
\* the last bar of its contract but less than a day before it
C16_Witness ==
  /\ dte_pc = "split"
  /\ Len(firstratedata_futures) = 2
  /\ \E i \in DOMAIN master_ungrouped_df :
       master_ungrouped_df[i].Days_To_Contract_Expiration >= 1
  /\ \E k \in DOMAIN firstratedata_futures :
       \E i \in DOMAIN firstratedata_futures[k] :
         LET file == firstratedata_futures[k]
         IN /\ Date(file[i].DateTime) < Date(file[Len(file)].DateTime)
            /\ file[Len(file)].DateTime - file[i].DateTime < MinutesPerDay

\* C17: all bars of one contract on the same calendar date have the same
\* 'Days To Contract Expiration', the number of calendar days from that
\* date to the contract's last trading date, so no contract-day has bars on
\* both sides of the threshold
C17_DteIsPropertyOfTradingDay ==
  load_i > 1 =>
    \A i, j \in DOMAIN with_dte_df :
      Date(with_dte_df[i].DateTime) = Date(with_dte_df[j].DateTime) =>
        /\ with_dte_df[i].Days_To_Contract_Expiration =
             with_dte_df[j].Days_To_Contract_Expiration
        /\ with_dte_df[i].Days_To_Contract_Expiration =
             Date(with_dte_df[Len(with_dte_df)].DateTime) - Date(with_dte_df[i].DateTime)
        /\ ~(/\ with_dte_df[i].Days_To_Contract_Expiration <= DAYS_TO_EXPIRATION_THRESHOLD
             /\ with_dte_df[j].Days_To_Contract_Expiration > DAYS_TO_EXPIRATION_THRESHOLD)

(***************************************************************************)
(* commodities_split_by_cot_short_interest.ipynb: the apply date range of  *)
(* a report and the two ways of matching a bar to a report                 *)
(***************************************************************************)
\* report_observation_date + DateOffset(days=6)
calc_begin_cot_apply_date_range(report_observation_date) ==
  report_observation_date + 6 * MinutesPerDay

\* report_observation_date + DateOffset(days=12)
calc_end_cot_apply_date_range(report_observation_date) ==
  report_observation_date + 12 * MinutesPerDay

\* the rows of cot_df with the two columns of the apply date range
with_apply_dates(cot_df_arg) ==
  [i \in DOMAIN cot_df_arg |->
     [Date |-> cot_df_arg[i].Date,
      Shorts |-> cot_df_arg[i].Shorts,
      Begin_Apply_Date_Range |-> calc_begin_cot_apply_date_range(cot_df_arg[i].Date),
      End_Apply_Date_Range |-> calc_end_cot_apply_date_range(cot_df_arg[i].Date)]]

\* enriched_df = cot_df.copy(); the two columns are stored in the copy.
\* cot_df is the table of the caller after the call, enriched_df the table
\* returned
enrich_with_apply_dates(cot_df_arg) ==
  [cot_df |-> cot_df_arg, enriched_df |-> with_apply_dates(cot_df_arg)]

\* rows with Begin <= a_date and End >= a_date, compared as timestamps;
\* ['Date'].any() is true when there is such a row
is_date_inside_range_of_dataframe(a_date, cot_pmpu_shorts_df) ==
  LET rows_with_a_date_inside ==
        SelectSeq(cot_pmpu_shorts_df,
                  LAMBDA r : /\ r.Begin_Apply_Date_Range <= a_date
                             /\ r.End_Apply_Date_Range >= a_date)
  IN rows_with_a_date_inside # <<>>

\* bar timestamps from the day of the first report to the second Monday
\* after the last one, at midnight, at the session open and in the last
\* minute of the day
ApplyBarTimes ==
  {d * MinutesPerDay + m :
     d \in SetMin(SlidingReportDays)..(SetMax(SlidingReportDays) + 13), m \in {0, 510, 1439}}

InitApply ==
  /\ apply_pc = "enrich"
  /\ cot_csv_as_df \in SlidingReportTables
  /\ enriched_cot_df = <<>>
  /\ a_bar_date \in ApplyBarTimes
  /\ contains_rows_with_date_inside = FALSE
  /\ bar_preceding_tuesday = 0
  /\ IdleDTE /\ IdleDate /\ IdleCOT /\ IdleOpen /\ IdleSettle /\ IdleHeader /\ IdleRename /\ IdleSliding /\ IdleLoad /\ IdleCells

\* cot_df = enrich_with_apply_dates(cot_df): the name cot_df is bound to the
\* table returned; cot_csv_as_df is the table that was passed
ApplyEnrich ==
  /\ apply_pc = "enrich"
  /\ LET result == enrich_with_apply_dates(cot_csv_as_df)
     IN /\ cot_csv_as_df' = result.cot_df
        /\ enriched_cot_df' = result.enriched_df
  /\ apply_pc' = "inside"
  /\ UNCHANGED <<a_bar_date, contains_rows_with_date_inside, bar_preceding_tuesday>>
  /\ UNCHANGED <<varsDTE, varsDate, varsCOT, varsOpen, varsSettle, varsHeader, varsRename, varsSliding, varsLoad, varsCells>>

\* is_date_inside_range_of_dataframe(a_date, cot_df)
ApplyIsDateInsideRange ==
  /\ apply_pc = "inside"
  /\ contains_rows_with_date_inside' =
       is_date_inside_range_of_dataframe(a_bar_date, enriched_cot_df)
  /\ apply_pc' = "tuesday"
  /\ UNCHANGED <<cot_csv_as_df, enriched_cot_df, a_bar_date, bar_preceding_tuesday>>
  /\ UNCHANGED <<varsDTE, varsDate, varsCOT, varsOpen, varsSettle, varsHeader, varsRename, varsSliding, varsLoad, varsCells>>

\* date_of_preceding_tuesday(a_date)
ApplyPrecedingTuesday ==
  /\ apply_pc = "tuesday"
  /\ bar_preceding_tuesday' = date_of_preceding_tuesday(a_bar_date)
  /\ apply_pc' = "done"
  /\ UNCHANGED <<cot_csv_as_df, enriched_cot_df, a_bar_date, contains_rows_with_date_inside>>
  /\ UNCHANGED <<varsDTE, varsDate, varsCOT, varsOpen, varsSettle, varsHeader, varsRename, varsSliding, varsLoad, varsCells>>

NextApply ==
  \/ ApplyEnrich
  \/ ApplyIsDateInsideRange
  \/ ApplyPrecedingTuesday

SpecApply == InitApply /\ [][NextApply]_vars

\* C21: for reports observed on Tuesdays and every bar timestamp, the bar
\* lies inside the apply date range of a report, as tested by
\* is_date_inside_range_of_dataframe, if and only if its
\* date_of_preceding_tuesday is the date of a report.
C21_RangeTestAgreesWithPrecedingTuesday ==
  apply_pc = "done" =>
    (contains_rows_with_date_inside
       <=> \E i \in DOMAIN enriched_cot_df :
             Date(enriched_cot_df[i].Date) = bar_preceding_tuesday)

(***************************************************************************)
(* Where a derived column is stored: add_dte_column_to_df in the loop of   *)
(* get_master_ungrouped_data_frame and enrich_with_apply_dates in the cell *)
(* of the short-interest notebook                                          *)
(***************************************************************************)
\* directories of one or two contract files and a table of reports, before
\* the loop and before the cell have run
InitDerivedColumns ==
  /\ load_pc = "loop"
  /\ firstratedata_futures \in ContractDirectories
  /\ load_i = 1
  /\ with_dte_df = <<>>
  /\ grouped_df = <<>>
  /\ caller_a_contract_df = <<>>
  /\ dte_pc = "load"
  /\ master_ungrouped_df = <<>>
  /\ DAYS_TO_EXPIRATION_THRESHOLD = 0
  /\ less_than_or_equal_dte_threshold_df = <<>>
  /\ greater_than_dte_threshold_df = <<>>
  /\ less_than_or_equal_dte_unique_trading_days = <<>>
  /\ greater_than_dte_unique_trading_days = <<>>
  /\ lte_dte_threshold_frames = <<>>
  /\ gt_dte_threshold_frames = <<>>
  /\ IdleDteNormalized
  /\ apply_pc = "enrich"
  /\ cot_csv_as_df \in {t \in SlidingReportTables : Len(t) <= 2}
  /\ enriched_cot_df = <<>>
  /\ a_bar_date = 0
  /\ contains_rows_with_date_inside = FALSE
  /\ bar_preceding_tuesday = 0
  /\ IdleDate /\ IdleCOT /\ IdleOpen /\ IdleSettle /\ IdleHeader /\ IdleRename /\ IdleSliding /\ IdleCells

NextDerivedColumns ==
  \/ LoadContract
  \/ LoadReturn
  \/ ApplyEnrich

SpecDerivedColumns == InitDerivedColumns /\ [][NextDerivedColumns]_vars

\* the names of the columns of a row
columns(row) == DOMAIN row

\* C22: after a call of add_dte_column_to_df the table of the caller is the
\* table returned and holds 'Days To Contract Expiration', with the rows,
\* their order and their 'Volume' as in the table given; after
\* enrich_with_apply_dates the table given is as it was, without the two
\* columns, which only the table returned holds.
C22_DteColumnStoredInPlaceApplyDatesInCopy ==
  /\ (load_pc \in {"loop", "done"} /\ load_i > 1) =>
       LET given == firstratedata_futures[load_i - 1]
       IN /\ caller_a_contract_df = with_dte_df
          /\ Len(caller_a_contract_df) = Len(given)
          /\ \A i \in DOMAIN given :
               /\ "Days_To_Contract_Expiration" \in columns(caller_a_contract_df[i])
               /\ caller_a_contract_df[i].DateTime = given[i].DateTime
               /\ caller_a_contract_df[i].Volume = given[i].Volume
  /\ apply_pc = "inside" =>
       /\ Len(enriched_cot_df) = Len(cot_csv_as_df)
       /\ \A i \in DOMAIN cot_csv_as_df :
            /\ columns(cot_csv_as_df[i]) = {"Date", "Shorts"}
            /\ columns(enriched_cot_df[i]) =
                 {"Date", "Shorts", "Begin_Apply_Date_Range", "End_Apply_Date_Range"}
            /\ enriched_cot_df[i].Date = cot_csv_as_df[i].Date
            /\ enriched_cot_df[i].Shorts = cot_csv_as_df[i].Shorts

\* both calls have been made, on a contract file whose first bar is more
\* than a day before its last and on a table of two reports
C22_Witness ==
  /\ load_pc = "done"
  /\ Len(caller_a_contract_df) >= 2
  /\ caller_a_contract_df[1].Days_To_Contract_Expiration > 0
  /\ apply_pc = "inside"
  /\ Len(cot_csv_as_df) = 2

(***************************************************************************)
(* The counting cells of commodities_analyze_missing_open_bars.ipynb       *)
(* executed a second time                                                  *)
(***************************************************************************)
\* C24: a second execution of the per-contract counting cell, or of the
\* cell that counts by 'DTE', without the cell that initialises its table,
\* leaves that table as it was after the first execution.
C24_CountingCellsIdempotent ==
  [][/\ open_pc' = "count_again" =>
          open_bar_by_contract_count_df' = open_bar_by_contract_count_df
     /\ open_pc' = "dte_count_again" =>
          days_to_expiration_open_bar_count_df' = days_to_expiration_open_bar_count_df]_vars

(***************************************************************************)
(* The names of the notebooks: every statement at the top level of a code  *)
(* cell, in the order of the cells, with the line of the file it is on.    *)
(* reads are the names the statement looks up in the namespace, defines    *)
(* the names it binds, globals (of a def) the names the body of the        *)
(* function looks up in the namespace when it is called. The body of a for *)
(* loop follows its header and ends with the statement of index end. An    *)
(* if, with or match statement is one statement: it reads what any of its  *)
(* branches reads and binds what every branch binds; an if statement whose *)
(* branch is continue is its test (kind continue_if, end the last          *)
(* statement of the loop it is in), followed by the statements of its      *)
(* other branch. Names of                                                  *)
(* builtins, of parameters, of locals and of comprehensions and lambdas    *)
(* are left out. The cell at line 750 of the short-interest file is        *)
(* indented as a whole; the kernel removes the indentation of such a cell  *)
(* before it compiles it.                                                  *)
(***************************************************************************)
ShortInterestNotebook ==
  <<[line |-> 9, kind |-> "stmt", reads |-> {},
     defines |-> {"pd"}, globals |-> {}, end |-> 0],
    [line |-> 10, kind |-> "stmt", reads |-> {},
     defines |-> {"NamedTuple", "Tuple"}, globals |-> {}, end |-> 0],
    [line |-> 11, kind |-> "stmt", reads |-> {},
     defines |-> {"namedtuple"}, globals |-> {}, end |-> 0],
    [line |-> 12, kind |-> "stmt", reads |-> {},
     defines |-> {"go"}, globals |-> {}, end |-> 0],
    [line |-> 13, kind |-> "stmt", reads |-> {},
     defines |-> {"DateOffset"}, globals |-> {}, end |-> 0],
    [line |-> 14, kind |-> "stmt", reads |-> {},
     defines |-> {"datetime"}, globals |-> {}, end |-> 0],
    [line |-> 30, kind |-> "stmt", reads |-> {},
     defines |-> {"COMMITMENT_OF_TRADERS_FUTURES_AND_OPTIONS_FILE_PATH"}, globals |-> {}, end |-> 0],
    [line |-> 31, kind |-> "stmt", reads |-> {},
     defines |-> {"CONTRACT_INTRADAY_SLIDING_OPEN_FILE_PATH"}, globals |-> {}, end |-> 0],
    [line |-> 32, kind |-> "stmt", reads |-> {},
     defines |-> {"CONTRACT_INTRADAY_TRUE_OPEN_FILE_PATH"}, globals |-> {}, end |-> 0],
    [line |-> 41, kind |-> "def", reads |-> {"pd"},
     defines |-> {"intraday_open_csv_to_df"}, globals |-> {"pd"}, end |-> 0],
    [line |-> 59, kind |-> "def", reads |-> {"pd"},
     defines |-> {"cot_csv_to_df"}, globals |-> {"pd"}, end |-> 0],
    [line |-> 75, kind |-> "def", reads |-> {"NamedTuple", "pd"},
     defines |-> {"filter_and_split_cot_shorts_around_median"}, globals |-> {"namedtuple"}, end |-> 0],
    [line |-> 91, kind |-> "def", reads |-> {"pd"},
     defines |-> {"is_date_inside_range_of_dataframe"}, globals |-> {}, end |-> 0],
    [line |-> 105, kind |-> "def", reads |-> {"pd"},
     defines |-> {"date_of_preceding_tuesday"}, globals |-> {"datetime"}, end |-> 0],
    [line |-> 132, kind |-> "def", reads |-> {"NamedTuple", "pd"},
     defines |-> {"split_intraday_activity_by_cot_median"}, globals |-> {"namedtuple"}, end |-> 0],
    [line |-> 151, kind |-> "def", reads |-> {"pd"},
     defines |-> {"calculate_average_intraday_price_change_grouped_by_open_minutes_offset"}, globals |-> {"pd"}, end |-> 0],
    [line |-> 171, kind |-> "def", reads |-> {"go", "pd"},
     defines |-> {"generate_figure"}, globals |-> {"go"}, end |-> 0],
    [line |-> 197, kind |-> "def", reads |-> {"Tuple", "pd"},
     defines |-> {"calc_begin_cot_apply_date_range"}, globals |-> {"DateOffset"}, end |-> 0],
    [line |-> 208, kind |-> "def", reads |-> {"Tuple", "pd"},
     defines |-> {"calc_end_cot_apply_date_range"}, globals |-> {"DateOffset"}, end |-> 0],
    [line |-> 219, kind |-> "def", reads |-> {"pd"},
     defines |-> {"enrich_with_apply_dates"}, globals |-> {"calc_begin_cot_apply_date_range", "calc_end_cot_apply_date_range"}, end |-> 0],
    [line |-> 234, kind |-> "stmt", reads |-> {"CONTRACT_INTRADAY_SLIDING_OPEN_FILE_PATH", "intraday_open_csv_to_df"},
     defines |-> {"intraday_sliding_open_df"}, globals |-> {}, end |-> 0],
    [line |-> 235, kind |-> "stmt", reads |-> {"CONTRACT_INTRADAY_TRUE_OPEN_FILE_PATH", "intraday_open_csv_to_df"},
     defines |-> {"intraday_true_open_df"}, globals |-> {}, end |-> 0],
    [line |-> 236, kind |-> "stmt", reads |-> {"COMMITMENT_OF_TRADERS_FUTURES_AND_OPTIONS_FILE_PATH", "cot_csv_to_df"},
     defines |-> {"cot_df"}, globals |-> {}, end |-> 0],
    [line |-> 245, kind |-> "stmt", reads |-> {"cot_df", "enrich_with_apply_dates"},
     defines |-> {"cot_df"}, globals |-> {}, end |-> 0],
    [line |-> 254, kind |-> "stmt", reads |-> {"intraday_true_open_df"},
     defines |-> {"unique_symbols"}, globals |-> {}, end |-> 0],
    [line |-> 263, kind |-> "stmt", reads |-> {"cot_df"},
     defines |-> {"median_pmpu_shorts_percentage"}, globals |-> {}, end |-> 0],
    [line |-> 272, kind |-> "stmt", reads |-> {"cot_df", "filter_and_split_cot_shorts_around_median", "median_pmpu_shorts_percentage"},
     defines |-> {"pmpu_shorts_split_by_median"}, globals |-> {}, end |-> 0],
    [line |-> 281, kind |-> "stmt", reads |-> {"cot_df"},
     defines |-> {}, globals |-> {}, end |-> 0],
    [line |-> 290, kind |-> "stmt", reads |-> {"date_of_preceding_tuesday", "intraday_true_open_df"},
     defines |-> {}, globals |-> {}, end |-> 0],
    [line |-> 291, kind |-> "stmt", reads |-> {"date_of_preceding_tuesday", "intraday_sliding_open_df"},
     defines |-> {}, globals |-> {}, end |-> 0],
    [line |-> 300, kind |-> "stmt", reads |-> {"intraday_true_open_df", "pmpu_shorts_split_by_median", "split_intraday_activity_by_cot_median"},
     defines |-> {"intraday_minute_bars_true_open_split"}, globals |-> {}, end |-> 0],
    [line |-> 305, kind |-> "stmt", reads |-> {"intraday_sliding_open_df", "pmpu_shorts_split_by_median", "split_intraday_activity_by_cot_median"},
     defines |-> {"intraday_minute_bars_sliding_open_split"}, globals |-> {}, end |-> 0],
    [line |-> 318, kind |-> "stmt", reads |-> {"calculate_average_intraday_price_change_grouped_by_open_minutes_offset", "intraday_minute_bars_true_open_split"},
     defines |-> {"true_open_intraday_average_changes"}, globals |-> {}, end |-> 0],
    [line |-> 319, kind |-> "stmt", reads |-> {"calculate_average_intraday_price_change_grouped_by_open_minutes_offset", "intraday_minute_bars_sliding_open_split"},
     defines |-> {"sliding_open_intraday_average_changes"}, globals |-> {}, end |-> 0],
    [line |-> 328, kind |-> "stmt", reads |-> {"generate_figure", "median_pmpu_shorts_percentage", "true_open_intraday_average_changes"},
     defines |-> {"fig1"}, globals |-> {}, end |-> 0],
    [line |-> 333, kind |-> "stmt", reads |-> {"generate_figure", "median_pmpu_shorts_percentage", "sliding_open_intraday_average_changes"},
     defines |-> {"fig2"}, globals |-> {}, end |-> 0],
    [line |-> 353, kind |-> "stmt", reads |-> {"fig1", "fig2"},
     defines |-> {"figures"}, globals |-> {}, end |-> 0],
    [line |-> 354, kind |-> "for", reads |-> {"figures"},
     defines |-> {"fig"}, globals |-> {}, end |-> 39],
    [line |-> 355, kind |-> "stmt", reads |-> {"fig"},
     defines |-> {}, globals |-> {}, end |-> 0]>>

ContractVolumeNotebook ==
  <<[line |-> 395, kind |-> "stmt", reads |-> {},
     defines |-> {}, globals |-> {}, end |-> 0],
    [line |-> 401, kind |-> "stmt", reads |-> {},
     defines |-> {"pd"}, globals |-> {}, end |-> 0],
    [line |-> 402, kind |-> "stmt", reads |-> {},
     defines |-> {"os"}, globals |-> {}, end |-> 0],
    [line |-> 403, kind |-> "stmt", reads |-> {},
     defines |-> {"go"}, globals |-> {}, end |-> 0],
    [line |-> 404, kind |-> "stmt", reads |-> {},
     defines |-> {"MinMaxScaler"}, globals |-> {}, end |-> 0],
    [line |-> 405, kind |-> "stmt", reads |-> {},
     defines |-> {"display"}, globals |-> {}, end |-> 0],
    [line |-> 406, kind |-> "stmt", reads |-> {},
     defines |-> {"tqdm", "trange"}, globals |-> {}, end |-> 0],
    [line |-> 407, kind |-> "stmt", reads |-> {},
     defines |-> {"np"}, globals |-> {}, end |-> 0],
    [line |-> 408, kind |-> "stmt", reads |-> {},
     defines |-> {"widgets"}, globals |-> {}, end |-> 0],
    [line |-> 419, kind |-> "stmt", reads |-> {"pd"},
     defines |-> {}, globals |-> {}, end |-> 0],
    [line |-> 430, kind |-> "stmt", reads |-> {},
     defines |-> {"csv_files"}, globals |-> {}, end |-> 0],
    [line |-> 431, kind |-> "for", reads |-> {"os"},
     defines |-> {"file"}, globals |-> {}, end |-> 13],
    [line |-> 432, kind |-> "stmt", reads |-> {"csv_files", "file"},
     defines |-> {}, globals |-> {}, end |-> 0],
    [line |-> 434, kind |-> "stmt", reads |-> {"csv_files"},
     defines |-> {}, globals |-> {}, end |-> 0],
    [line |-> 445, kind |-> "stmt", reads |-> {"csv_files"},
     defines |-> {"contracts"}, globals |-> {}, end |-> 0],
    [line |-> 446, kind |-> "stmt", reads |-> {"contracts"},
     defines |-> {"unique_contract_years"}, globals |-> {}, end |-> 0],
    [line |-> 447, kind |-> "stmt", reads |-> {"unique_contract_years"},
     defines |-> {}, globals |-> {}, end |-> 0],
    [line |-> 448, kind |-> "stmt", reads |-> {"unique_contract_years"},
     defines |-> {"unique_contract_years"}, globals |-> {}, end |-> 0],
    [line |-> 449, kind |-> "stmt", reads |-> {"contracts"},
     defines |-> {"unique_contract_months"}, globals |-> {}, end |-> 0],
    [line |-> 450, kind |-> "stmt", reads |-> {"unique_contract_months"},
     defines |-> {}, globals |-> {}, end |-> 0],
    [line |-> 451, kind |-> "stmt", reads |-> {"unique_contract_months"},
     defines |-> {"unique_contract_months"}, globals |-> {}, end |-> 0],
    [line |-> 461, kind |-> "stmt", reads |-> {"unique_contract_months", "widgets"},
     defines |-> {"month_filter_widget"}, globals |-> {}, end |-> 0],
    [line |-> 467, kind |-> "stmt", reads |-> {"month_filter_widget"},
     defines |-> {}, globals |-> {}, end |-> 0],
    [line |-> 477, kind |-> "stmt", reads |-> {"unique_contract_years", "widgets"},
     defines |-> {"year_filter_widget"}, globals |-> {}, end |-> 0],
    [line |-> 483, kind |-> "stmt", reads |-> {"year_filter_widget"},
     defines |-> {}, globals |-> {}, end |-> 0],
    [line |-> 493, kind |-> "stmt", reads |-> {"contracts"},
     defines |-> {"contracts_to_analyze"}, globals |-> {}, end |-> 0],
    [line |-> 494, kind |-> "stmt", reads |-> {"contracts_to_analyze", "month_filter_widget"},
     defines |-> {}, globals |-> {}, end |-> 0],
    [line |-> 496, kind |-> "stmt", reads |-> {"contracts_to_analyze", "year_filter_widget"},
     defines |-> {}, globals |-> {}, end |-> 0],
    [line |-> 498, kind |-> "stmt", reads |-> {"contracts_to_analyze"},
     defines |-> {"filenames_to_analyze"}, globals |-> {}, end |-> 0],
    [line |-> 499, kind |-> "stmt", reads |-> {"filenames_to_analyze"},
     defines |-> {}, globals |-> {}, end |-> 0],
    [line |-> 509, kind |-> "def", reads |-> {},
     defines |-> {"convert_csv_to_df"}, globals |-> {"pd"}, end |-> 0],
    [line |-> 521, kind |-> "def", reads |-> {},
     defines |-> {"get_unique_trading_days"}, globals |-> {}, end |-> 0],
    [line |-> 534, kind |-> "def", reads |-> {},
     defines |-> {"resample_volume_by_minute"}, globals |-> {}, end |-> 0],
    [line |-> 547, kind |-> "def", reads |-> {},
     defines |-> {"group_by_minute"}, globals |-> {}, end |-> 0],
    [line |-> 562, kind |-> "def", reads |-> {},
     defines |-> {"calculate_avg_vol_per_minute"}, globals |-> {}, end |-> 0],
    [line |-> 576, kind |-> "def", reads |-> {},
     defines |-> {"normalize_nd_array"}, globals |-> {"MinMaxScaler"}, end |-> 0],
    [line |-> 596, kind |-> "def", reads |-> {},
     defines |-> {"calculate_normalized_volume"}, globals |-> {"df_volume_by_minute_grouped", "normalize_nd_array"}, end |-> 0],
    [line |-> 618, kind |-> "def", reads |-> {},
     defines |-> {"create_dataframes_for_volume_grouped_by_minute"}, globals |-> {"normalize_nd_array", "trange"}, end |-> 0],
    [line |-> 645, kind |-> "def", reads |-> {},
     defines |-> {"concat_to_single_df"}, globals |-> {"pd"}, end |-> 0],
    [line |-> 661, kind |-> "def", reads |-> {},
     defines |-> {"calculate_normalized_vol_by_minute"}, globals |-> {}, end |-> 0],
    [line |-> 672, kind |-> "def", reads |-> {},
     defines |-> {"group_by_minute_sum_normalized_volumes"}, globals |-> {"calculate_normalized_vol_by_minute", "num_unique_trading_days"}, end |-> 0],
    [line |-> 691, kind |-> "def", reads |-> {},
     defines |-> {"initialize_df_grouped_by_minute"}, globals |-> {"pd"}, end |-> 0],
    [line |-> 707, kind |-> "stmt", reads |-> {"initialize_df_grouped_by_minute"},
     defines |-> {"master_avg_daily_nominal_df"}, globals |-> {}, end |-> 0],
    [line |-> 708, kind |-> "stmt", reads |-> {"initialize_df_grouped_by_minute"},
     defines |-> {"master_avg_daily_normalized_df"}, globals |-> {}, end |-> 0],
    [line |-> 709, kind |-> "for", reads |-> {"filenames_to_analyze", "trange"},
     defines |-> {"i"}, globals |-> {}, end |-> 62],
    [line |-> 710, kind |-> "stmt", reads |-> {"filenames_to_analyze", "i"},
     defines |-> {"file"}, globals |-> {}, end |-> 0],
    [line |-> 711, kind |-> "stmt", reads |-> {"file"},
     defines |-> {"contract_symbol"}, globals |-> {}, end |-> 0],
    [line |-> 712, kind |-> "stmt", reads |-> {"convert_csv_to_df", "file"},
     defines |-> {"df"}, globals |-> {}, end |-> 0],
    [line |-> 715, kind |-> "stmt", reads |-> {"df", "get_unique_trading_days"},
     defines |-> {"unique_trading_days"}, globals |-> {}, end |-> 0],
    [line |-> 716, kind |-> "stmt", reads |-> {"unique_trading_days"},
     defines |-> {"num_unique_trading_days"}, globals |-> {}, end |-> 0],
    [line |-> 718, kind |-> "stmt", reads |-> {"df", "resample_volume_by_minute"},
     defines |-> {"df_volume_by_minute"}, globals |-> {}, end |-> 0],
    [line |-> 721, kind |-> "stmt", reads |-> {"df_volume_by_minute", "group_by_minute"},
     defines |-> {"df_volume_by_minute_grouped"}, globals |-> {}, end |-> 0],
    [line |-> 724, kind |-> "stmt", reads |-> {"calculate_avg_vol_per_minute", "df_volume_by_minute_grouped", "num_unique_trading_days"},
     defines |-> {"df_volume_by_minute_grouped"}, globals |-> {}, end |-> 0],
    [line |-> 727, kind |-> "stmt", reads |-> {"contract_symbol", "create_dataframes_for_volume_grouped_by_minute", "df_volume_by_minute", "unique_trading_days"},
     defines |-> {"frames"}, globals |-> {}, end |-> 0],
    [line |-> 731, kind |-> "stmt", reads |-> {"concat_to_single_df", "frames"},
     defines |-> {"df_intraday_normalized"}, globals |-> {}, end |-> 0],
    [line |-> 733, kind |-> "stmt", reads |-> {},
     defines |-> {}, globals |-> {}, end |-> 0],
    [line |-> 734, kind |-> "stmt", reads |-> {"df_intraday_normalized"},
     defines |-> {}, globals |-> {}, end |-> 0],
    [line |-> 735, kind |-> "stmt", reads |-> {"df_intraday_normalized", "group_by_minute_sum_normalized_volumes"},
     defines |-> {"df_normalized_grouped_by_minute"}, globals |-> {}, end |-> 0],
    [line |-> 737, kind |-> "stmt", reads |-> {},
     defines |-> {}, globals |-> {}, end |-> 0],
    [line |-> 738, kind |-> "stmt", reads |-> {"df_normalized_grouped_by_minute"},
     defines |-> {}, globals |-> {}, end |-> 0],
    [line |-> 740, kind |-> "stmt", reads |-> {"contract_symbol", "df_volume_by_minute_grouped", "master_avg_daily_nominal_df"},
     defines |-> {}, globals |-> {}, end |-> 0],
    [line |-> 741, kind |-> "stmt", reads |-> {"contract_symbol", "df_normalized_grouped_by_minute", "master_avg_daily_normalized_df"},
     defines |-> {}, globals |-> {}, end |-> 0],
    [line |-> 751, kind |-> "stmt", reads |-> {},
     defines |-> {"figures"}, globals |-> {}, end |-> 0],
    [line |-> 752, kind |-> "stmt", reads |-> {"master_avg_daily_nominal_df"},
     defines |-> {"fig1"}, globals |-> {}, end |-> 0],
    [line |-> 753, kind |-> "stmt", reads |-> {"master_avg_daily_normalized_df"},
     defines |-> {"fig2"}, globals |-> {}, end |-> 0],
    [line |-> 754, kind |-> "stmt", reads |-> {"fig1", "figures"},
     defines |-> {}, globals |-> {}, end |-> 0],
    [line |-> 755, kind |-> "stmt", reads |-> {"fig2", "figures"},
     defines |-> {}, globals |-> {}, end |-> 0],
    [line |-> 766, kind |-> "for", reads |-> {"figures"},
     defines |-> {"fig"}, globals |-> {}, end |-> 69],
    [line |-> 767, kind |-> "stmt", reads |-> {"fig"},
     defines |-> {}, globals |-> {}, end |-> 0]>>

SettlementNotebook ==
  <<[line |-> 9, kind |-> "stmt", reads |-> {},
     defines |-> {"pd"}, globals |-> {}, end |-> 0],
    [line |-> 10, kind |-> "stmt", reads |-> {},
     defines |-> {"os"}, globals |-> {}, end |-> 0],
    [line |-> 11, kind |-> "stmt", reads |-> {},
     defines |-> {"datetime"}, globals |-> {}, end |-> 0],
    [line |-> 12, kind |-> "stmt", reads |-> {},
     defines |-> {"tqdm", "trange"}, globals |-> {}, end |-> 0],
    [line |-> 31, kind |-> "stmt", reads |-> {"os"},
     defines |-> {"CURRENT_DIR"}, globals |-> {}, end |-> 0],
    [line |-> 32, kind |-> "stmt", reads |-> {"CURRENT_DIR", "os"},
     defines |-> {"SETLLEMENT_CHANGE_DATA_PATH"}, globals |-> {}, end |-> 0],
    [line |-> 35, kind |-> "stmt", reads |-> {"CURRENT_DIR", "os"},
     defines |-> {"CONTRACT_INTRADAY_SLIDING_OPEN_FILE_PATH"}, globals |-> {}, end |-> 0],
    [line |-> 37, kind |-> "stmt", reads |-> {"CURRENT_DIR", "os"},
     defines |-> {"CONTRACT_INTRADAY_TRUE_OPEN_FILE_PATH"}, globals |-> {}, end |-> 0],
    [line |-> 41, kind |-> "stmt", reads |-> {},
     defines |-> {"DTE_FILTER_UPPER_BOUNDARY"}, globals |-> {}, end |-> 0],
    [line |-> 42, kind |-> "stmt", reads |-> {},
     defines |-> {"DTE_FILTER_LOWER_BOUNDARY"}, globals |-> {}, end |-> 0],
    [line |-> 51, kind |-> "def", reads |-> {},
     defines |-> {"get_change_from_settlement_information"}, globals |-> {"SETLLEMENT_CHANGE_DATA_PATH", "pd"}, end |-> 0],
    [line |-> 67, kind |-> "def", reads |-> {"pd"},
     defines |-> {"intraday_open_csv_to_df"}, globals |-> {"pd"}, end |-> 0],
    [line |-> 85, kind |-> "def", reads |-> {"pd"},
     defines |-> {"filter_bars_for_dte_with_frequently_missing_open"}, globals |-> {}, end |-> 0],
    [line |-> 102, kind |-> "def", reads |-> {"datetime", "pd"},
     defines |-> {"get_settlement_price_change_for_date"}, globals |-> {}, end |-> 0],
    [line |-> 114, kind |-> "def", reads |-> {"datetime", "pd"},
     defines |-> {"get_intraday_price_change_at_minute_sixty"}, globals |-> {}, end |-> 0],
    [line |-> 128, kind |-> "stmt", reads |-> {"SETLLEMENT_CHANGE_DATA_PATH", "os"},
     defines |-> {"files"}, globals |-> {}, end |-> 0],
    [line |-> 129, kind |-> "stmt", reads |-> {"files"},
     defines |-> {}, globals |-> {}, end |-> 0],
    [line |-> 130, kind |-> "stmt", reads |-> {"files"},
     defines |-> {}, globals |-> {}, end |-> 0],
    [line |-> 139, kind |-> "stmt", reads |-> {"files", "get_change_from_settlement_information"},
     defines |-> {"settlement_change_datasets"}, globals |-> {}, end |-> 0],
    [line |-> 155, kind |-> "for", reads |-> {"settlement_change_datasets"},
     defines |-> {"settlement_change_dataset"}, globals |-> {}, end |-> 22],
    [line |-> 156, kind |-> "stmt", reads |-> {"settlement_change_dataset"},
     defines |-> {"a_df_price_diff_only"}, globals |-> {}, end |-> 0],
    [line |-> 157, kind |-> "stmt", reads |-> {"a_df_price_diff_only", "settlement_change_dataset"},
     defines |-> {}, globals |-> {}, end |-> 0],
    [line |-> 166, kind |-> "stmt", reads |-> {"CONTRACT_INTRADAY_SLIDING_OPEN_FILE_PATH", "intraday_open_csv_to_df"},
     defines |-> {"sliding_open_df"}, globals |-> {}, end |-> 0],
    [line |-> 167, kind |-> "stmt", reads |-> {"CONTRACT_INTRADAY_TRUE_OPEN_FILE_PATH", "intraday_open_csv_to_df"},
     defines |-> {"true_open_df"}, globals |-> {}, end |-> 0],
    [line |-> 168, kind |-> "stmt", reads |-> {"DTE_FILTER_LOWER_BOUNDARY", "DTE_FILTER_UPPER_BOUNDARY", "filter_bars_for_dte_with_frequently_missing_open", "sliding_open_df"},
     defines |-> {"sliding_open_df"}, globals |-> {}, end |-> 0],
    [line |-> 173, kind |-> "stmt", reads |-> {"DTE_FILTER_LOWER_BOUNDARY", "DTE_FILTER_UPPER_BOUNDARY", "filter_bars_for_dte_with_frequently_missing_open", "true_open_df"},
     defines |-> {"true_open_df"}, globals |-> {}, end |-> 0],
    [line |-> 186, kind |-> "stmt", reads |-> {"sliding_open_df"},
     defines |-> {"unique_symbols"}, globals |-> {}, end |-> 0],
    [line |-> 195, kind |-> "stmt", reads |-> {},
     defines |-> {"corellation_matrix"}, globals |-> {}, end |-> 0],
    [line |-> 196, kind |-> "for", reads |-> {"settlement_change_datasets", "trange"},
     defines |-> {"a_settlement_change_dataset_index"}, globals |-> {}, end |-> 43],
    [line |-> 197, kind |-> "stmt", reads |-> {"a_settlement_change_dataset_index", "settlement_change_datasets"},
     defines |-> {"a_settlement_change_dataset"}, globals |-> {}, end |-> 0],
    [line |-> 198, kind |-> "stmt", reads |-> {"a_settlement_change_dataset", "corellation_matrix"},
     defines |-> {}, globals |-> {}, end |-> 0],
    [line |-> 199, kind |-> "stmt", reads |-> {"a_settlement_change_dataset", "sliding_open_df", "true_open_df"},
     defines |-> {"intraday_df"}, globals |-> {}, end |-> 0],
    [line |-> 203, kind |-> "for", reads |-> {"trange", "unique_symbols"},
     defines |-> {"a_symbol_index"}, globals |-> {}, end |-> 43],
    [line |-> 204, kind |-> "stmt", reads |-> {"a_symbol_index", "unique_symbols"},
     defines |-> {"a_symbol"}, globals |-> {}, end |-> 0],
    [line |-> 205, kind |-> "stmt", reads |-> {"a_settlement_change_dataset", "a_symbol"},
     defines |-> {"a_settlement_change_dataset_for_symbol"}, globals |-> {}, end |-> 0],
    [line |-> 206, kind |-> "stmt", reads |-> {"a_symbol", "intraday_df"},
     defines |-> {"intraday_df_for_symbol"}, globals |-> {}, end |-> 0],
    [line |-> 207, kind |-> "stmt", reads |-> {"a_settlement_change_dataset_for_symbol"},
     defines |-> {"unique_dates"}, globals |-> {}, end |-> 0],
    [line |-> 208, kind |-> "for", reads |-> {"unique_dates"},
     defines |-> {"a_date"}, globals |-> {}, end |-> 43],
    [line |-> 209, kind |-> "stmt", reads |-> {"a_date", "a_settlement_change_dataset_for_symbol", "get_settlement_price_change_for_date"},
     defines |-> {"settlement_price_diff"}, globals |-> {}, end |-> 0],
    [line |-> 210, kind |-> "stmt", reads |-> {"a_date", "get_intraday_price_change_at_minute_sixty", "intraday_df_for_symbol"},
     defines |-> {"intraday_cfo"}, globals |-> {}, end |-> 0],
    [line |-> 211, kind |-> "continue_if", reads |-> {"intraday_cfo", "settlement_price_diff"},
     defines |-> {}, globals |-> {}, end |-> 43],
    [line |-> 214, kind |-> "stmt", reads |-> {"a_date", "a_symbol", "intraday_cfo", "settlement_price_diff"},
     defines |-> {"prices_for_date"}, globals |-> {}, end |-> 0],
    [line |-> 220, kind |-> "stmt", reads |-> {"a_settlement_change_dataset", "corellation_matrix", "prices_for_date"},
     defines |-> {}, globals |-> {}, end |-> 0],
    [line |-> 238, kind |-> "for", reads |-> {"corellation_matrix"},
     defines |-> {"a_dict", "title"}, globals |-> {}, end |-> 47],
    [line |-> 239, kind |-> "stmt", reads |-> {"a_dict", "pd"},
     defines |-> {"a_df"}, globals |-> {}, end |-> 0],
    [line |-> 240, kind |-> "stmt", reads |-> {"a_df"},
     defines |-> {"a_df_filtered"}, globals |-> {}, end |-> 0],
    [line |-> 241, kind |-> "stmt", reads |-> {"a_df_filtered", "title"},
     defines |-> {}, globals |-> {}, end |-> 0]>>

MissingOpenBarsNotebook ==
  <<[line |-> 9, kind |-> "stmt", reads |-> {},
     defines |-> {"os"}, globals |-> {}, end |-> 0],
    [line |-> 10, kind |-> "stmt", reads |-> {},
     defines |-> {"pd"}, globals |-> {}, end |-> 0],
    [line |-> 11, kind |-> "stmt", reads |-> {},
     defines |-> {"dt"}, globals |-> {}, end |-> 0],
    [line |-> 12, kind |-> "stmt", reads |-> {},
     defines |-> {"px"}, globals |-> {}, end |-> 0],
    [line |-> 13, kind |-> "stmt", reads |-> {},
     defines |-> {"go"}, globals |-> {}, end |-> 0],
    [line |-> 14, kind |-> "stmt", reads |-> {},
     defines |-> {"np"}, globals |-> {}, end |-> 0],
    [line |-> 15, kind |-> "stmt", reads |-> {},
     defines |-> {"display"}, globals |-> {}, end |-> 0],
    [line |-> 16, kind |-> "stmt", reads |-> {},
     defines |-> {"tqdm", "trange"}, globals |-> {}, end |-> 0],
    [line |-> 34, kind |-> "stmt", reads |-> {},
     defines |-> {"CONTRACT_OPEN_ENRICHED_FILE_PATH"}, globals |-> {}, end |-> 0],
    [line |-> 43, kind |-> "def", reads |-> {"pd"},
     defines |-> {"calculate_num_unique_dates_for_contract"}, globals |-> {}, end |-> 0],
    [line |-> 56, kind |-> "def", reads |-> {"pd"},
     defines |-> {"filter_rows_where_day_is_missing_open"}, globals |-> {}, end |-> 0],
    [line |-> 80, kind |-> "def", reads |-> {"pd"},
     defines |-> {"filter_rows_where_day_contains_open"}, globals |-> {}, end |-> 0],
    [line |-> 104, kind |-> "stmt", reads |-> {"CONTRACT_OPEN_ENRICHED_FILE_PATH", "pd"},
     defines |-> {"contract_open_enriched_df"}, globals |-> {}, end |-> 0],
    [line |-> 113, kind |-> "stmt", reads |-> {"contract_open_enriched_df"},
     defines |-> {}, globals |-> {}, end |-> 0],
    [line |-> 124, kind |-> "stmt", reads |-> {"contract_open_enriched_df"},
     defines |-> {"unique_symbols"}, globals |-> {}, end |-> 0],
    [line |-> 140, kind |-> "stmt", reads |-> {"pd"},
     defines |-> {"rows_with_missing_open_df"}, globals |-> {}, end |-> 0],
    [line |-> 141, kind |-> "stmt", reads |-> {"pd"},
     defines |-> {"rows_with_populated_open_df"}, globals |-> {}, end |-> 0],
    [line |-> 142, kind |-> "for", reads |-> {"trange", "unique_symbols"},
     defines |-> {"i"}, globals |-> {}, end |-> 24],
    [line |-> 143, kind |-> "stmt", reads |-> {"i", "unique_symbols"},
     defines |-> {"symbol"}, globals |-> {}, end |-> 0],
    [line |-> 144, kind |-> "stmt", reads |-> {"contract_open_enriched_df", "symbol"},
     defines |-> {"rows_for_one_contract_df"}, globals |-> {}, end |-> 0],
    [line |-> 145, kind |-> "stmt", reads |-> {"filter_rows_where_day_contains_open", "rows_for_one_contract_df"},
     defines |-> {"rows_for_one_contract_missing_open_df"}, globals |-> {}, end |-> 0],
    [line |-> 146, kind |-> "stmt", reads |-> {"filter_rows_where_day_is_missing_open", "rows_for_one_contract_df"},
     defines |-> {"rows_for_one_contract_containing_open_df"}, globals |-> {}, end |-> 0],
    [line |-> 147, kind |-> "stmt", reads |-> {"pd", "rows_for_one_contract_missing_open_df", "rows_with_missing_open_df"},
     defines |-> {"rows_with_missing_open_df"}, globals |-> {}, end |-> 0],
    [line |-> 148, kind |-> "stmt", reads |-> {"pd", "rows_for_one_contract_containing_open_df", "rows_with_populated_open_df"},
     defines |-> {"rows_with_populated_open_df"}, globals |-> {}, end |-> 0],
    [line |-> 157, kind |-> "stmt", reads |-> {"pd"},
     defines |-> {"open_bar_by_contract_count_df"}, globals |-> {}, end |-> 0],
    [line |-> 173, kind |-> "for", reads |-> {"unique_symbols"},
     defines |-> {"symbol"}, globals |-> {}, end |-> 29],
    [line |-> 174, kind |-> "stmt", reads |-> {"calculate_num_unique_dates_for_contract", "rows_with_missing_open_df", "symbol"},
     defines |-> {"num_unique_dates_with_missing_open"}, globals |-> {}, end |-> 0],
    [line |-> 177, kind |-> "stmt", reads |-> {"calculate_num_unique_dates_for_contract", "rows_with_populated_open_df", "symbol"},
     defines |-> {"num_unique_dates_with_open"}, globals |-> {}, end |-> 0],
    [line |-> 180, kind |-> "stmt", reads |-> {"num_unique_dates_with_missing_open", "num_unique_dates_with_open", "open_bar_by_contract_count_df", "symbol"},
     defines |-> {"open_bar_by_contract_count_df"}, globals |-> {}, end |-> 0],
    [line |-> 203, kind |-> "stmt", reads |-> {"pd"},
     defines |-> {"days_to_expiration_open_bar_count_df"}, globals |-> {}, end |-> 0],
    [line |-> 216, kind |-> "for", reads |-> {"trange", "unique_symbols"},
     defines |-> {"i"}, globals |-> {}, end |-> 44],
    [line |-> 217, kind |-> "stmt", reads |-> {"i", "unique_symbols"},
     defines |-> {"symbol"}, globals |-> {}, end |-> 0],
    [line |-> 218, kind |-> "stmt", reads |-> {"rows_with_missing_open_df", "symbol"},
     defines |-> {"missing_open_for_contract_df"}, globals |-> {}, end |-> 0],
    [line |-> 219, kind |-> "stmt", reads |-> {"rows_with_populated_open_df", "symbol"},
     defines |-> {"populated_open_for_contract_df"}, globals |-> {}, end |-> 0],
    [line |-> 220, kind |-> "stmt", reads |-> {"missing_open_for_contract_df"},
     defines |-> {"dte_values_with_missing_open_bar"}, globals |-> {}, end |-> 0],
    [line |-> 221, kind |-> "stmt", reads |-> {"populated_open_for_contract_df"},
     defines |-> {"dte_values_with_populated_open_bar"}, globals |-> {}, end |-> 0],
    [line |-> 223, kind |-> "for", reads |-> {"dte_values_with_missing_open_bar"},
     defines |-> {"missing_dte_value"}, globals |-> {}, end |-> 40],
    [line |-> 224, kind |-> "stmt", reads |-> {"days_to_expiration_open_bar_count_df", "missing_dte_value"},
     defines |-> {"index_of_row_to_increment"}, globals |-> {}, end |-> 0],
    [line |-> 225, kind |-> "stmt", reads |-> {"days_to_expiration_open_bar_count_df", "index_of_row_to_increment"},
     defines |-> {"current_value"}, globals |-> {}, end |-> 0],
    [line |-> 226, kind |-> "stmt", reads |-> {"current_value", "days_to_expiration_open_bar_count_df", "index_of_row_to_increment"},
     defines |-> {}, globals |-> {}, end |-> 0],
    [line |-> 228, kind |-> "for", reads |-> {"dte_values_with_populated_open_bar"},
     defines |-> {"populated_dte_value"}, globals |-> {}, end |-> 44],
    [line |-> 229, kind |-> "stmt", reads |-> {"days_to_expiration_open_bar_count_df", "populated_dte_value"},
     defines |-> {"index_of_row_to_increment"}, globals |-> {}, end |-> 0],
    [line |-> 230, kind |-> "stmt", reads |-> {"days_to_expiration_open_bar_count_df", "index_of_row_to_increment"},
     defines |-> {"current_value"}, globals |-> {}, end |-> 0],
    [line |-> 231, kind |-> "stmt", reads |-> {"current_value", "days_to_expiration_open_bar_count_df", "index_of_row_to_increment"},
     defines |-> {}, globals |-> {}, end |-> 0],
    [line |-> 240, kind |-> "stmt", reads |-> {"go", "open_bar_by_contract_count_df", "unique_symbols"},
     defines |-> {"fig"}, globals |-> {}, end |-> 0],
    [line |-> 245, kind |-> "stmt", reads |-> {"fig"},
     defines |-> {}, globals |-> {}, end |-> 0],
    [line |-> 246, kind |-> "stmt", reads |-> {"fig"},
     defines |-> {}, globals |-> {}, end |-> 0],
    [line |-> 255, kind |-> "stmt", reads |-> {"days_to_expiration_open_bar_count_df"},
     defines |-> {"unique_dte"}, globals |-> {}, end |-> 0],
    [line |-> 256, kind |-> "stmt", reads |-> {"open_bar_by_contract_count_df"},
     defines |-> {}, globals |-> {}, end |-> 0],
    [line |-> 265, kind |-> "stmt", reads |-> {"days_to_expiration_open_bar_count_df"},
     defines |-> {}, globals |-> {}, end |-> 0],
    [line |-> 266, kind |-> "stmt", reads |-> {"days_to_expiration_open_bar_count_df"},
     defines |-> {}, globals |-> {}, end |-> 0],
    [line |-> 275, kind |-> "stmt", reads |-> {"days_to_expiration_open_bar_count_df", "go", "unique_dte"},
     defines |-> {"dte_without_open_fig"}, globals |-> {}, end |-> 0],
    [line |-> 278, kind |-> "stmt", reads |-> {"dte_without_open_fig"},
     defines |-> {}, globals |-> {}, end |-> 0],
    [line |-> 279, kind |-> "stmt", reads |-> {"days_to_expiration_open_bar_count_df", "go", "unique_dte"},
     defines |-> {"dte_percentage_without_open_fig"}, globals |-> {}, end |-> 0],
    [line |-> 282, kind |-> "stmt", reads |-> {"dte_percentage_without_open_fig"},
     defines |-> {}, globals |-> {}, end |-> 0],
    [line |-> 283, kind |-> "stmt", reads |-> {"dte_percentage_without_open_fig"},
     defines |-> {}, globals |-> {}, end |-> 0],
    [line |-> 284, kind |-> "stmt", reads |-> {"dte_without_open_fig"},
     defines |-> {}, globals |-> {}, end |-> 0]>>

DaysToExpirationNotebook ==
  <<[line |-> 10, kind |-> "stmt", reads |-> {},
     defines |-> {}, globals |-> {}, end |-> 0],
    [line |-> 18, kind |-> "stmt", reads |-> {},
     defines |-> {"pd"}, globals |-> {}, end |-> 0],
    [line |-> 19, kind |-> "stmt", reads |-> {},
     defines |-> {"os"}, globals |-> {}, end |-> 0],
    [line |-> 20, kind |-> "stmt", reads |-> {},
     defines |-> {"widgets"}, globals |-> {}, end |-> 0],
    [line |-> 21, kind |-> "stmt", reads |-> {},
     defines |-> {"display"}, globals |-> {}, end |-> 0],
    [line |-> 22, kind |-> "stmt", reads |-> {},
     defines |-> {"tqdm", "trange"}, globals |-> {}, end |-> 0],
    [line |-> 23, kind |-> "stmt", reads |-> {},
     defines |-> {"datetime"}, globals |-> {}, end |-> 0],
    [line |-> 24, kind |-> "stmt", reads |-> {},
     defines |-> {"MinMaxScaler"}, globals |-> {}, end |-> 0],
    [line |-> 34, kind |-> "stmt", reads |-> {},
     defines |-> {"CONTRACTS_PREFIX_MATCHER"}, globals |-> {}, end |-> 0],
    [line |-> 35, kind |-> "stmt", reads |-> {},
     defines |-> {"DAYS_TO_EXPIRATION_THRESHOLD"}, globals |-> {}, end |-> 0],
    [line |-> 46, kind |-> "stmt", reads |-> {"pd"},
     defines |-> {}, globals |-> {}, end |-> 0],
    [line |-> 57, kind |-> "stmt", reads |-> {},
     defines |-> {"csv_files"}, globals |-> {}, end |-> 0],
    [line |-> 58, kind |-> "for", reads |-> {"os"},
     defines |-> {"file"}, globals |-> {}, end |-> 14],
    [line |-> 59, kind |-> "stmt", reads |-> {"CONTRACTS_PREFIX_MATCHER", "csv_files", "file"},
     defines |-> {}, globals |-> {}, end |-> 0],
    [line |-> 61, kind |-> "stmt", reads |-> {"csv_files"},
     defines |-> {}, globals |-> {}, end |-> 0],
    [line |-> 62, kind |-> "stmt", reads |-> {"csv_files"},
     defines |-> {}, globals |-> {}, end |-> 0],
    [line |-> 72, kind |-> "def", reads |-> {},
     defines |-> {"convert_csv_to_df"}, globals |-> {"pd"}, end |-> 0],
    [line |-> 87, kind |-> "def", reads |-> {},
     defines |-> {"get_unique_trading_days"}, globals |-> {}, end |-> 0],
    [line |-> 100, kind |-> "def", reads |-> {},
     defines |-> {"initialize_df_grouped_by_minute"}, globals |-> {"pd"}, end |-> 0],
    [line |-> 115, kind |-> "def", reads |-> {},
     defines |-> {"combine_data_frames"}, globals |-> {"pd"}, end |-> 0],
    [line |-> 128, kind |-> "def", reads |-> {},
     defines |-> {"resample_volume_by_minute"}, globals |-> {}, end |-> 0],
    [line |-> 142, kind |-> "def", reads |-> {"pd"},
     defines |-> {"split_dataframe_by_dte"}, globals |-> {}, end |-> 0],
    [line |-> 159, kind |-> "def", reads |-> {"pd"},
     defines |-> {"get_master_avg_daily_nominal_df"}, globals |-> {"DAYS_TO_EXPIRATION_THRESHOLD", "initialize_df_grouped_by_minute", "pd"}, end |-> 0],
    [line |-> 180, kind |-> "def", reads |-> {"pd"},
     defines |-> {"clean_master_avg_daily_nominal_df"}, globals |-> {}, end |-> 0],
    [line |-> 193, kind |-> "def", reads |-> {},
     defines |-> {"normalize_nd_array"}, globals |-> {"MinMaxScaler"}, end |-> 0],
    [line |-> 213, kind |-> "def", reads |-> {},
     defines |-> {"create_dataframes_for_volume_grouped_by_minute"}, globals |-> {"normalize_nd_array", "trange"}, end |-> 0],
    [line |-> 238, kind |-> "def", reads |-> {},
     defines |-> {"concat_to_single_df"}, globals |-> {"pd"}, end |-> 0],
    [line |-> 252, kind |-> "def", reads |-> {},
     defines |-> {"calculate_normalized_vol_by_minute"}, globals |-> {}, end |-> 0],
    [line |-> 263, kind |-> "def", reads |-> {},
     defines |-> {"group_by_minute_sum_normalized_volumes"}, globals |-> {"calculate_normalized_vol_by_minute"}, end |-> 0],
    [line |-> 282, kind |-> "def", reads |-> {},
     defines |-> {"calculate_dte_for_row"}, globals |-> {}, end |-> 0],
    [line |-> 297, kind |-> "def", reads |-> {},
     defines |-> {"add_dte_column_to_df"}, globals |-> {"calculate_dte_for_row", "get_unique_trading_days"}, end |-> 0],
    [line |-> 313, kind |-> "def", reads |-> {},
     defines |-> {"get_master_ungrouped_data_frame"}, globals |-> {"add_dte_column_to_df", "combine_data_frames", "convert_csv_to_df", "pd", "trange"}, end |-> 0],
    [line |-> 336, kind |-> "stmt", reads |-> {"csv_files", "get_master_ungrouped_data_frame"},
     defines |-> {"master_ungrouped_df"}, globals |-> {}, end |-> 0],
    [line |-> 347, kind |-> "stmt", reads |-> {"master_ungrouped_df"},
     defines |-> {"master_ungrouped_df"}, globals |-> {}, end |-> 0],
    [line |-> 358, kind |-> "stmt", reads |-> {"DAYS_TO_EXPIRATION_THRESHOLD", "master_ungrouped_df", "split_dataframe_by_dte"},
     defines |-> {"greater_than_dte_threshold_df", "less_than_or_equal_dte_threshold_df"}, globals |-> {}, end |-> 0],
    [line |-> 369, kind |-> "stmt", reads |-> {"get_unique_trading_days", "less_than_or_equal_dte_threshold_df"},
     defines |-> {"less_than_or_equal_dte_unique_trading_days"}, globals |-> {}, end |-> 0],
    [line |-> 370, kind |-> "stmt", reads |-> {"get_unique_trading_days", "greater_than_dte_threshold_df"},
     defines |-> {"greater_than_dte_unique_trading_days"}, globals |-> {}, end |-> 0],
    [line |-> 381, kind |-> "stmt", reads |-> {"less_than_or_equal_dte_unique_trading_days"},
     defines |-> {"num_lte_dte_unique_trading_days"}, globals |-> {}, end |-> 0],
    [line |-> 382, kind |-> "stmt", reads |-> {"greater_than_dte_unique_trading_days"},
     defines |-> {"num_gt_dte_unique_trading_days"}, globals |-> {}, end |-> 0],
    [line |-> 393, kind |-> "stmt", reads |-> {"less_than_or_equal_dte_threshold_df", "resample_volume_by_minute"},
     defines |-> {"lte_dte_by_minute_df"}, globals |-> {}, end |-> 0],
    [line |-> 394, kind |-> "stmt", reads |-> {"greater_than_dte_threshold_df", "resample_volume_by_minute"},
     defines |-> {"gt_dte_by_minute_df"}, globals |-> {}, end |-> 0],
    [line |-> 406, kind |-> "stmt", reads |-> {"get_master_avg_daily_nominal_df", "gt_dte_by_minute_df", "lte_dte_by_minute_df", "num_gt_dte_unique_trading_days", "num_lte_dte_unique_trading_days"},
     defines |-> {"master_avg_daily_nominal_df"}, globals |-> {}, end |-> 0],
    [line |-> 420, kind |-> "stmt", reads |-> {"DAYS_TO_EXPIRATION_THRESHOLD", "clean_master_avg_daily_nominal_df", "master_avg_daily_nominal_df"},
     defines |-> {"master_avg_daily_nominal_df"}, globals |-> {}, end |-> 0],
    [line |-> 433, kind |-> "stmt", reads |-> {"create_dataframes_for_volume_grouped_by_minute", "less_than_or_equal_dte_threshold_df", "less_than_or_equal_dte_unique_trading_days"},
     defines |-> {"lte_dte_threshold_frames"}, globals |-> {}, end |-> 0],
    [line |-> 434, kind |-> "stmt", reads |-> {"create_dataframes_for_volume_grouped_by_minute", "greater_than_dte_threshold_df", "greater_than_dte_unique_trading_days"},
     defines |-> {"gt_dte_threshold_frames"}, globals |-> {}, end |-> 0],
    [line |-> 445, kind |-> "stmt", reads |-> {"concat_to_single_df", "lte_dte_threshold_frames"},
     defines |-> {"df_intraday_normalized_lte_dte"}, globals |-> {}, end |-> 0],
    [line |-> 446, kind |-> "stmt", reads |-> {"concat_to_single_df", "gt_dte_threshold_frames"},
     defines |-> {"df_intraday_normalized_gt_dte"}, globals |-> {}, end |-> 0],
    [line |-> 457, kind |-> "stmt", reads |-> {"df_intraday_normalized_lte_dte", "group_by_minute_sum_normalized_volumes", "num_lte_dte_unique_trading_days"},
     defines |-> {"df_intraday_normalized_lte_dte_grouped_by_minute"}, globals |-> {}, end |-> 0],
    [line |-> 458, kind |-> "stmt", reads |-> {"df_intraday_normalized_gt_dte", "group_by_minute_sum_normalized_volumes", "num_gt_dte_unique_trading_days"},
     defines |-> {"df_intraday_normalized_gt_grouped_by_minute"}, globals |-> {}, end |-> 0],
    [line |-> 469, kind |-> "stmt", reads |-> {"DAYS_TO_EXPIRATION_THRESHOLD", "df_intraday_normalized_lte_dte_grouped_by_minute"},
     defines |-> {"df_intraday_normalized_lte_dte_grouped_by_minute"}, globals |-> {}, end |-> 0],
    [line |-> 470, kind |-> "stmt", reads |-> {"df_intraday_normalized_lte_dte_grouped_by_minute"},
     defines |-> {"df_intraday_normalized_lte_dte_grouped_by_minute"}, globals |-> {}, end |-> 0],
    [line |-> 471, kind |-> "stmt", reads |-> {"DAYS_TO_EXPIRATION_THRESHOLD", "df_intraday_normalized_gt_grouped_by_minute"},
     defines |-> {"df_intraday_normalized_gt_grouped_by_minute"}, globals |-> {}, end |-> 0],
    [line |-> 472, kind |-> "stmt", reads |-> {"df_intraday_normalized_gt_grouped_by_minute"},
     defines |-> {"df_intraday_normalized_gt_grouped_by_minute"}, globals |-> {}, end |-> 0],
    [line |-> 483, kind |-> "stmt", reads |-> {"df_intraday_normalized_gt_grouped_by_minute", "df_intraday_normalized_lte_dte_grouped_by_minute", "pd"},
     defines |-> {"master_avg_daily_normalized_df"}, globals |-> {}, end |-> 0],
    [line |-> 494, kind |-> "stmt", reads |-> {"CONTRACTS_PREFIX_MATCHER", "master_avg_daily_nominal_df"},
     defines |-> {"fig1"}, globals |-> {}, end |-> 0],
    [line |-> 495, kind |-> "stmt", reads |-> {"CONTRACTS_PREFIX_MATCHER", "master_avg_daily_normalized_df"},
     defines |-> {"fig2"}, globals |-> {}, end |-> 0],
    [line |-> 496, kind |-> "stmt", reads |-> {"fig1"},
     defines |-> {}, globals |-> {}, end |-> 0],
    [line |-> 497, kind |-> "stmt", reads |-> {"fig2"},
     defines |-> {}, globals |-> {}, end |-> 0]>>

DateSplitNotebook ==
  <<[line |-> 10, kind |-> "stmt", reads |-> {},
     defines |-> {}, globals |-> {}, end |-> 0],
    [line |-> 16, kind |-> "stmt", reads |-> {},
     defines |-> {"pd"}, globals |-> {}, end |-> 0],
    [line |-> 17, kind |-> "stmt", reads |-> {},
     defines |-> {"os"}, globals |-> {}, end |-> 0],
    [line |-> 18, kind |-> "stmt", reads |-> {},
     defines |-> {"widgets"}, globals |-> {}, end |-> 0],
    [line |-> 19, kind |-> "stmt", reads |-> {},
     defines |-> {"display"}, globals |-> {}, end |-> 0],
    [line |-> 20, kind |-> "stmt", reads |-> {},
     defines |-> {"tqdm", "trange"}, globals |-> {}, end |-> 0],
    [line |-> 21, kind |-> "stmt", reads |-> {},
     defines |-> {"datetime"}, globals |-> {}, end |-> 0],
    [line |-> 22, kind |-> "stmt", reads |-> {},
     defines |-> {"MinMaxScaler"}, globals |-> {}, end |-> 0],
    [line |-> 32, kind |-> "stmt", reads |-> {},
     defines |-> {"CONTRACTS_PREFIX_MATCHER"}, globals |-> {}, end |-> 0],
    [line |-> 33, kind |-> "stmt", reads |-> {},
     defines |-> {"SPLIT_DATE_CUTOFF"}, globals |-> {}, end |-> 0],
    [line |-> 44, kind |-> "stmt", reads |-> {"pd"},
     defines |-> {}, globals |-> {}, end |-> 0],
    [line |-> 55, kind |-> "stmt", reads |-> {},
     defines |-> {"csv_files"}, globals |-> {}, end |-> 0],
    [line |-> 56, kind |-> "for", reads |-> {"os"},
     defines |-> {"file"}, globals |-> {}, end |-> 14],
    [line |-> 57, kind |-> "stmt", reads |-> {"CONTRACTS_PREFIX_MATCHER", "csv_files", "file"},
     defines |-> {}, globals |-> {}, end |-> 0],
    [line |-> 59, kind |-> "stmt", reads |-> {"csv_files"},
     defines |-> {}, globals |-> {}, end |-> 0],
    [line |-> 60, kind |-> "stmt", reads |-> {"csv_files"},
     defines |-> {}, globals |-> {}, end |-> 0],
    [line |-> 70, kind |-> "def", reads |-> {},
     defines |-> {"convert_csv_to_df"}, globals |-> {"pd"}, end |-> 0],
    [line |-> 85, kind |-> "def", reads |-> {},
     defines |-> {"get_unique_trading_days"}, globals |-> {}, end |-> 0],
    [line |-> 98, kind |-> "def", reads |-> {},
     defines |-> {"initialize_df_grouped_by_minute"}, globals |-> {"pd"}, end |-> 0],
    [line |-> 113, kind |-> "def", reads |-> {},
     defines |-> {"combine_data_frames"}, globals |-> {"pd"}, end |-> 0],
    [line |-> 126, kind |-> "def", reads |-> {},
     defines |-> {"get_master_ungrouped_data_frame"}, globals |-> {"combine_data_frames", "convert_csv_to_df", "pd", "trange"}, end |-> 0],
    [line |-> 145, kind |-> "def", reads |-> {},
     defines |-> {"resample_volume_by_minute"}, globals |-> {}, end |-> 0],
    [line |-> 159, kind |-> "def", reads |-> {},
     defines |-> {"split_dataframe_by_date"}, globals |-> {"datetime", "master_ungrouped_df"}, end |-> 0],
    [line |-> 173, kind |-> "def", reads |-> {"pd"},
     defines |-> {"get_master_avg_daily_nominal_df"}, globals |-> {"SPLIT_DATE_CUTOFF", "initialize_df_grouped_by_minute", "pd"}, end |-> 0],
    [line |-> 194, kind |-> "def", reads |-> {"pd"},
     defines |-> {"clean_master_avg_daily_nominal_df"}, globals |-> {}, end |-> 0],
    [line |-> 206, kind |-> "def", reads |-> {"pd"},
     defines |-> {"clean_master_avg_daily_normalized_df"}, globals |-> {}, end |-> 0],
    [line |-> 219, kind |-> "def", reads |-> {},
     defines |-> {"normalize_nd_array"}, globals |-> {"MinMaxScaler"}, end |-> 0],
    [line |-> 239, kind |-> "def", reads |-> {},
     defines |-> {"create_dataframes_for_volume_grouped_by_minute"}, globals |-> {"normalize_nd_array", "trange"}, end |-> 0],
    [line |-> 264, kind |-> "def", reads |-> {},
     defines |-> {"concat_to_single_df"}, globals |-> {"pd"}, end |-> 0],
    [line |-> 278, kind |-> "def", reads |-> {},
     defines |-> {"calculate_normalized_vol_by_minute"}, globals |-> {}, end |-> 0],
    [line |-> 289, kind |-> "def", reads |-> {},
     defines |-> {"group_by_minute_sum_normalized_volumes"}, globals |-> {"calculate_normalized_vol_by_minute"}, end |-> 0],
    [line |-> 311, kind |-> "stmt", reads |-> {"csv_files", "get_master_ungrouped_data_frame"},
     defines |-> {"master_ungrouped_df"}, globals |-> {}, end |-> 0],
    [line |-> 322, kind |-> "stmt", reads |-> {"master_ungrouped_df"},
     defines |-> {"master_ungrouped_df"}, globals |-> {}, end |-> 0],
    [line |-> 323, kind |-> "stmt", reads |-> {"SPLIT_DATE_CUTOFF", "master_ungrouped_df", "split_dataframe_by_date"},
     defines |-> {"after_date_df", "before_date_df"}, globals |-> {}, end |-> 0],
    [line |-> 334, kind |-> "stmt", reads |-> {"before_date_df", "get_unique_trading_days"},
     defines |-> {"before_date_unique_trading_days"}, globals |-> {}, end |-> 0],
    [line |-> 335, kind |-> "stmt", reads |-> {"after_date_df", "get_unique_trading_days"},
     defines |-> {"after_date_unique_trading_days"}, globals |-> {}, end |-> 0],
    [line |-> 346, kind |-> "stmt", reads |-> {"before_date_unique_trading_days"},
     defines |-> {"num_before_date_unique_trading_days"}, globals |-> {}, end |-> 0],
    [line |-> 347, kind |-> "stmt", reads |-> {"after_date_unique_trading_days"},
     defines |-> {"num_after_date_unique_trading_days"}, globals |-> {}, end |-> 0],
    [line |-> 358, kind |-> "stmt", reads |-> {"before_date_df", "resample_volume_by_minute"},
     defines |-> {"before_date_by_minute_df"}, globals |-> {}, end |-> 0],
    [line |-> 359, kind |-> "stmt", reads |-> {"after_date_df", "resample_volume_by_minute"},
     defines |-> {"after_date_by_minute_df"}, globals |-> {}, end |-> 0],
    [line |-> 371, kind |-> "stmt", reads |-> {"after_date_by_minute_df", "before_date_by_minute_df", "get_master_avg_daily_nominal_df", "num_after_date_unique_trading_days", "num_before_date_unique_trading_days"},
     defines |-> {"master_avg_daily_nominal_df"}, globals |-> {}, end |-> 0],
    [line |-> 386, kind |-> "stmt", reads |-> {"SPLIT_DATE_CUTOFF", "clean_master_avg_daily_nominal_df", "master_avg_daily_nominal_df"},
     defines |-> {"master_avg_daily_nominal_df"}, globals |-> {}, end |-> 0],
    [line |-> 399, kind |-> "stmt", reads |-> {"before_date_unique_trading_days", "create_dataframes_for_volume_grouped_by_minute", "master_ungrouped_df"},
     defines |-> {"before_cutoff_date_frames"}, globals |-> {}, end |-> 0],
    [line |-> 400, kind |-> "stmt", reads |-> {"after_date_unique_trading_days", "create_dataframes_for_volume_grouped_by_minute", "master_ungrouped_df"},
     defines |-> {"after_cutoff_date_frames"}, globals |-> {}, end |-> 0],
    [line |-> 411, kind |-> "stmt", reads |-> {"before_cutoff_date_frames", "concat_to_single_df"},
     defines |-> {"df_intraday_normalized_before"}, globals |-> {}, end |-> 0],
    [line |-> 412, kind |-> "stmt", reads |-> {"after_cutoff_date_frames", "concat_to_single_df"},
     defines |-> {"df_intraday_normalized_after"}, globals |-> {}, end |-> 0],
    [line |-> 422, kind |-> "stmt", reads |-> {"df_intraday_normalized_after"},
     defines |-> {}, globals |-> {}, end |-> 0],
    [line |-> 433, kind |-> "stmt", reads |-> {"df_intraday_normalized_before", "group_by_minute_sum_normalized_volumes", "num_before_date_unique_trading_days"},
     defines |-> {"df_intraday_normalized_before_grouped_by_minute"}, globals |-> {}, end |-> 0],
    [line |-> 434, kind |-> "stmt", reads |-> {"df_intraday_normalized_after", "group_by_minute_sum_normalized_volumes", "num_after_date_unique_trading_days"},
     defines |-> {"df_intraday_normalized_after_grouped_by_minute"}, globals |-> {}, end |-> 0],
    [line |-> 445, kind |-> "stmt", reads |-> {"SPLIT_DATE_CUTOFF", "df_intraday_normalized_before_grouped_by_minute"},
     defines |-> {"df_intraday_normalized_before_grouped_by_minute"}, globals |-> {}, end |-> 0],
    [line |-> 446, kind |-> "stmt", reads |-> {"df_intraday_normalized_before_grouped_by_minute"},
     defines |-> {"df_intraday_normalized_before_grouped_by_minute"}, globals |-> {}, end |-> 0],
    [line |-> 447, kind |-> "stmt", reads |-> {"SPLIT_DATE_CUTOFF", "df_intraday_normalized_after_grouped_by_minute"},
     defines |-> {"df_intraday_normalized_after_grouped_by_minute"}, globals |-> {}, end |-> 0],
    [line |-> 448, kind |-> "stmt", reads |-> {"df_intraday_normalized_after_grouped_by_minute"},
     defines |-> {"df_intraday_normalized_after_grouped_by_minute"}, globals |-> {}, end |-> 0],
    [line |-> 459, kind |-> "stmt", reads |-> {"df_intraday_normalized_after_grouped_by_minute", "df_intraday_normalized_before_grouped_by_minute", "pd"},
     defines |-> {"master_avg_daily_normalized_df"}, globals |-> {}, end |-> 0],
    [line |-> 470, kind |-> "stmt", reads |-> {"CONTRACTS_PREFIX_MATCHER", "master_avg_daily_nominal_df"},
     defines |-> {"fig1"}, globals |-> {}, end |-> 0],
    [line |-> 471, kind |-> "stmt", reads |-> {"CONTRACTS_PREFIX_MATCHER", "master_avg_daily_normalized_df"},
     defines |-> {"fig2"}, globals |-> {}, end |-> 0],
    [line |-> 472, kind |-> "stmt", reads |-> {"fig1"},
     defines |-> {}, globals |-> {}, end |-> 0],
    [line |-> 473, kind |-> "stmt", reads |-> {"fig2"},
     defines |-> {}, globals |-> {}, end |-> 0]>>

Notebooks ==
  [ShortInterest |-> ShortInterestNotebook,
   ContractVolume |-> ContractVolumeNotebook,
   Settlement |-> SettlementNotebook,
   MissingOpenBars |-> MissingOpenBarsNotebook,
   DaysToExpiration |-> DaysToExpirationNotebook,
   DateSplit |-> DateSplitNotebook]

RECURSIVE names_looked_up(_, _)
\* the names a set of names stands for when every function among them is
\* called: the names themselves and the names the bodies look up
names_looked_up(names, defined_functions) ==
  LET called == {f \in defined_functions : f.name \in names}
      more == names \cup UNION {f.globals : f \in called}
  IN IF more = names THEN names ELSE names_looked_up(more, defined_functions)

\* variant in which the body of a function looks up its names when the def
\* statement runs
names_read_at_definition(statement, defined_functions) ==
  names_looked_up(statement.reads \cup statement.globals, defined_functions)

\* the names looked up when a statement runs: a def statement evaluates
\* its annotations and defaults only, the body of a function looks up its
\* names when it is called
names_read(statement, defined_functions) ==
  names_looked_up(statement.reads, defined_functions)

\* the functions of the namespace after a statement has bound its names
functions_after(statement, defined_functions) ==
  {f \in defined_functions : f.name \notin statement.defines}
    \cup (IF statement.kind = "def"
          THEN {[name |-> n, globals |-> statement.globals] : n \in statement.defines}
          ELSE {})

InitCells ==
  /\ cells_pc = "run"
  /\ notebook \in DOMAIN Notebooks
  /\ statement_index = 1
  /\ namespace = {}
  /\ functions = {}
  /\ IdleDTE /\ IdleDate /\ IdleCOT /\ IdleOpen /\ IdleSettle /\ IdleHeader /\ IdleRename /\ IdleSliding /\ IdleLoad /\ IdleApply

\* the position after the statement of index i
GoOn(i) ==
  /\ statement_index' = i + 1
  /\ cells_pc' = IF i + 1 > Len(Notebooks[notebook]) THEN "done" ELSE "run"

\* a looked up name that is not bound: the cell stops with a NameError
RaiseNameError ==
  /\ cells_pc' = "NameError"
  /\ UNCHANGED <<statement_index, namespace, functions>>

\* an import, a def, an assignment, an expression, or an if, with or match
\* statement; for the test of an if statement whose branch is continue, the
\* test is false and the other branch follows
ExecuteStatement ==
  /\ cells_pc = "run"
  /\ LET statement == Notebooks[notebook][statement_index]
     IN /\ statement.kind # "for"
        /\ IF names_read(statement, functions) \subseteq namespace
           THEN /\ namespace' = namespace \cup statement.defines
                /\ functions' = functions_after(statement, functions)
                /\ GoOn(statement_index)
           ELSE RaiseNameError
  /\ UNCHANGED notebook
  /\ UNCHANGED <<varsDTE, varsDate, varsCOT, varsOpen, varsSettle, varsHeader, varsRename, varsSliding, varsLoad, varsApply>>

\* a for statement whose iterable has an item: the target is bound and the
\* body runs. Later passes of the body find every name the first pass found,
\* since no statement unbinds a name
EnterLoop ==
  /\ cells_pc = "run"
  /\ LET statement == Notebooks[notebook][statement_index]
     IN /\ statement.kind = "for"
        /\ IF names_read(statement, functions) \subseteq namespace
           THEN /\ namespace' = namespace \cup statement.defines
                /\ functions' = functions_after(statement, functions)
                /\ GoOn(statement_index)
           ELSE RaiseNameError
  /\ UNCHANGED notebook
  /\ UNCHANGED <<varsDTE, varsDate, varsCOT, varsOpen, varsSettle, varsHeader, varsRename, varsSliding, varsLoad, varsApply>>

\* a for statement whose iterable is empty: neither the target nor any
\* name of the body is bound
SkipLoop ==
  /\ cells_pc = "run"
  /\ LET statement == Notebooks[notebook][statement_index]
     IN /\ statement.kind = "for"
        /\ IF names_read(statement, functions) \subseteq namespace
           THEN /\ GoOn(statement.end)
                /\ UNCHANGED <<namespace, functions>>
           ELSE RaiseNameError
  /\ UNCHANGED notebook
  /\ UNCHANGED <<varsDTE, varsDate, varsCOT, varsOpen, varsSettle, varsHeader, varsRename, varsSliding, varsLoad, varsApply>>

\* the test of an if statement whose branch is continue is true: nothing
\* is bound and the rest of the pass of the loop is not run
ContinueLoop ==
  /\ cells_pc = "run"
  /\ LET statement == Notebooks[notebook][statement_index]
     IN /\ statement.kind = "continue_if"
        /\ IF names_read(statement, functions) \subseteq namespace
           THEN /\ GoOn(statement.end)
                /\ UNCHANGED <<namespace, functions>>
           ELSE RaiseNameError
  /\ UNCHANGED notebook
  /\ UNCHANGED <<varsDTE, varsDate, varsCOT, varsOpen, varsSettle, varsHeader, varsRename, varsSliding, varsLoad, varsApply>>

NextCells ==
  \/ ExecuteStatement
  \/ ContinueLoop
  \/ EnterLoop
  \/ SkipLoop

SpecCells == InitCells /\ [][NextCells]_vars

\* C23: executing the cells of a notebook once from top to bottom never
\* looks up a name that no earlier statement has bound; a function that
\* reads a name of the notebook is called only after the name is bound.
C23_NoNameReadBeforeItIsDefined ==
  /\ cells_pc # "NameError"
  /\ cells_pc = "run" =>
       names_read(Notebooks[notebook][statement_index], functions) \subseteq namespace

\* the notebook of the contract volumes after the call of
\* group_by_minute_sum_normalized_volumes in the loop over the files, and
\* the date-split notebook after the call of split_dataframe_by_date
C23_Witness ==
  \/ /\ notebook = "ContractVolume"
     /\ "df_normalized_grouped_by_minute" \in namespace
     /\ "num_unique_trading_days" \in namespace
     /\ \E f \in functions : /\ f.name = "group_by_minute_sum_normalized_volumes"
                             /\ "num_unique_trading_days" \in f.globals
     /\ cells_pc = "done"
  \/ /\ notebook = "DateSplit"
     /\ \E f \in functions : /\ f.name = "split_dataframe_by_date"
                             /\ "master_ungrouped_df" \in f.globals
     /\ cells_pc = "done"

====
